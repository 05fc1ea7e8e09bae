------------------------- MODULE CircularQueueProofs -------------------------
(***************************************************************************)
(* Theorems about CircularQueue, for any number of threads and calls, any  *)
(* capacity that divides the number of values of a DWORD, and any seed:    *)
(* the ring is never overrun, no slot is in two hands, the items come out  *)
(* in order, and a refusal is right, also where the indices wrap.          *)
(***************************************************************************)
EXTENDS CircularQueue, TLAPS

Multiple(M, C) == \E k \in 1 .. M : M = C * k

-----------------------------------------------------------------------------
(* Quotient and remainder.                                                 *)
LEMMA Division ==
  ASSUME NEW x \in Int, NEW M \in Nat \ {0}
  PROVE  \E q \in Int : \E r \in 0 .. M - 1 : x = M * q + r /\ r = x % M
<1>1. x = M * (x \div M) + (x % M) /\ (x % M) \in 0 .. M - 1 /\ (x \div M) \in Int
  OBVIOUS
<1> QED
  BY <1>1

(* The remainder is the only one.                                          *)
LEMMA OneRemainder ==
  ASSUME NEW M \in Nat \ {0}, NEW q \in Int, NEW r \in 0 .. M - 1,
         NEW x \in Int, x = M * q + r
  PROVE  x % M = r
  OBVIOUS

(* A number in reach of zero, as an unsigned one.                          *)
LEMMA Unsigned ==
  ASSUME NEW M \in Nat \ {0}, NEW d \in -(M - 1) .. M - 1
  PROVE  d % M = IF d >= 0 THEN d ELSE d + M
<1>1. CASE d >= 0
  BY <1>1
<1>2. CASE d < 0
  BY <1>2
<1> QED
  BY <1>1, <1>2

(* Two numbers less than M apart have different remainders.                *)
LEMMA NearDiffer ==
  ASSUME NEW M \in Nat \ {0}, NEW x \in Int, NEW y \in Int, x < y, y - x < M
  PROVE  x % M # y % M
<1> SUFFICES ASSUME x % M = y % M PROVE FALSE
  OBVIOUS
<1>1. PICK p \in Int, r \in 0 .. M - 1 : x = M * p + r /\ r = x % M
  BY Division
<1>2. PICK q \in Int, s \in 0 .. M - 1 : y = M * q + s /\ s = y % M
  BY Division
<1> DEFINE n == q - p
<1>3. n \in Int /\ y - x = M * n
  BY <1>1, <1>2
<1>4. n >= 1 => y - x >= M
  BY <1>3
<1>5. n <= 0 => y - x <= 0
  BY <1>3
<1> QED
  BY <1>3, <1>4, <1>5

LEMMA Regroup ==
  ASSUME NEW C \in Int, NEW k \in Int, NEW q \in Int, NEW p \in Int, NEW s \in Int
  PROVE  (C * k) * q + (C * p + s) = C * (k * q + p) + s
  OBVIOUS

(* The mask of a DWORD that wrapped is the mask of the number itself.      *)
LEMMA MaskOfWrapped ==
  ASSUME NEW C \in Nat \ {0}, NEW M \in Nat \ {0}, Multiple(M, C), NEW x \in Int
  PROVE  (x % M) % C = x % C
<1>1. PICK q \in Int, r \in 0 .. M - 1 : x = M * q + r /\ r = x % M
  BY Division
<1>2. PICK p \in Int, s \in 0 .. C - 1 : r = C * p + s /\ s = r % C
  <2>1. r \in Int
    OBVIOUS
  <2> QED
    BY <2>1, Division
<1>3. \E n \in Int : x = C * n + s
  <2>1. PICK k \in 1 .. M : M = C * k
    BY DEF Multiple
  <2>2. x = (C * k) * q + (C * p + s)
    BY <1>1, <1>2, <2>1
  <2>3. x = C * (k * q + p) + s
    BY <2>2, Regroup
  <2>4. k * q + p \in Int
    BY <1>1, <1>2, <2>1
  <2> QED
    BY <2>3, <2>4
<1>4. x % C = s
  <2>1. PICK n \in Int : x = C * n + s
    BY <1>3
  <2>2. s \in 0 .. C - 1
    OBVIOUS
  <2> QED
    BY <2>1, <2>2, OneRemainder
<1> QED
  BY <1>1, <1>2, <1>4

-----------------------------------------------------------------------------
(* What the operators of CircularQueue say of indices that are near.       *)
LEMMA Sizes ==
  /\ Capacity \in Nat \ {0} /\ Modulus \in Nat \ {0} /\ Capacity < Modulus
  /\ Seed \in Nat /\ MaxItems \in Nat /\ MaxPops \in Nat
  /\ Multiple(Modulus, Capacity)
  BY QueueAssumption DEF Multiple

LEMMA SlotIs ==
  ASSUME NEW i \in Int
  PROVE  Slot(i) = i % Capacity /\ Slot(i) \in 0 .. Capacity - 1
<1>1. Slot(i) = i % Capacity
  BY Sizes, MaskOfWrapped DEF Slot
<1>2. i % Capacity \in 0 .. Capacity - 1
  BY Sizes
<1> QED
  BY <1>1, <1>2

LEMMA SlotsDiffer ==
  ASSUME NEW i \in Int, NEW j \in Int, i # j, i - j < Capacity, j - i < Capacity
  PROVE  Slot(i) # Slot(j)
<1>1. CASE i < j
  BY <1>1, Sizes, SlotIs, NearDiffer
<1>2. CASE j < i
  BY <1>2, Sizes, SlotIs, NearDiffer
<1> QED
  BY <1>1, <1>2

LEMMA SameIsEqual ==
  ASSUME NEW i \in Int, NEW j \in Int, i - j < Modulus, j - i < Modulus
  PROVE  Same(i, j) <=> i = j
<1>1. CASE i < j
  BY <1>1, Sizes, NearDiffer DEF Same
<1>2. CASE j < i
  BY <1>2, Sizes, NearDiffer DEF Same
<1>3. CASE i = j
  BY <1>3 DEF Same
<1> QED
  BY <1>1, <1>2, <1>3

LEMMA DistanceIs ==
  ASSUME NEW i \in Int, NEW j \in Int, i - j < Modulus, j - i < Modulus
  PROVE  Distance(i, j) = IF i >= j THEN i - j ELSE i - j + Modulus
<1>1. i - j \in -(Modulus - 1) .. Modulus - 1
  BY Sizes
<1>2. (i - j) % Modulus = IF i - j >= 0 THEN i - j ELSE i - j + Modulus
  BY <1>1, Sizes, Unsigned
<1> QED
  BY <1>2 DEF Distance

-----------------------------------------------------------------------------
(***************************************************************************)
(* The inductive invariant.  A thread that fills a slot has an index of    *)
(* its own between the write and the back index; one that empties a slot,  *)
(* between the front and the read index.  All of these indices lie within  *)
(* the capacity, so that their slots differ as they do.  What a thread has *)
(* loaded may be old, but then the index it would exchange has moved on.   *)
(***************************************************************************)
Filling == {"pushItem", "pushWrite"}
Emptying == {"popItem", "popFront"}

Ring == Seed <= m_dwFrontIndex /\ IndicesOrdered

Loaded(t) ==
  /\ pc[t] \in {"pushCheck", "pushExchange"} => index[t] <= m_dwBackIndex
  /\ pc[t] = "pushExchange" /\ index[t] = m_dwBackIndex =>
       m_dwBackIndex < m_dwFrontIndex + Capacity
  /\ pc[t] \in {"popCheck", "popExchange"} => index[t] <= m_dwReadIndex
  /\ pc[t] = "popExchange" /\ index[t] = m_dwReadIndex =>
       m_dwReadIndex < m_dwWriteIndex

Held(t) ==
  /\ pc[t] \in PushLabels => item[t] \in Items
  /\ pc[t] \in Filling => m_dwWriteIndex <= index[t] /\ index[t] < m_dwBackIndex
  /\ pc[t] \in Emptying => m_dwFrontIndex <= index[t] /\ index[t] < m_dwReadIndex

Apart(t, u) ==
  t # u =>
    /\ pc[t] \in Filling /\ pc[u] \in Filling => index[t] # index[u]
    /\ pc[t] \in Emptying /\ pc[u] \in Emptying => index[t] # index[u]

Contents(t) ==
  /\ pc[t] \in {"pushWrite", "popItem"} =>
       m_vecItems[Slot(index[t])] = ItemAt(index[t])
  /\ pc[t] \in {"pushItem", "popFront"} => item[t] = ItemAt(index[t])

Published ==
  \A n \in m_dwReadIndex .. m_dwWriteIndex - 1 : m_vecItems[Slot(n)] = ItemAt(n)

IInv ==
  /\ TypeOK /\ Ring /\ Published
  /\ \A t \in Threads : Loaded(t) /\ Held(t) /\ Contents(t)
  /\ \A t, u \in Threads : Apart(t, u)

LEMMA InitIInv == Init => IInv
<1> SUFFICES ASSUME Init PROVE IInv
  OBVIOUS
<1>1. m_dwBackIndex = Seed + Len(order)
  BY Sizes DEF Init
<1>2. TypeOK
  BY <1>1, Sizes DEF Init, TypeOK, Items, NoItem
<1>3. Ring /\ Published
  BY Sizes DEF Init, Ring, IndicesOrdered, Published
<1>4. \A t \in Threads : pc[t] = "idle"
  BY DEF Init
<1> QED
  BY <1>2, <1>3, <1>4 DEF IInv, Loaded, Held, Apart, Contents, PushLabels,
     Filling, Emptying

(* The numbers of a state. *)
LEMMA Numbers ==
  ASSUME IInv
  PROVE  /\ m_dwFrontIndex \in Nat /\ m_dwReadIndex \in Nat
         /\ m_dwWriteIndex \in Nat /\ m_dwBackIndex \in Nat
         /\ Seed <= m_dwFrontIndex /\ m_dwFrontIndex <= m_dwReadIndex
         /\ m_dwReadIndex <= m_dwWriteIndex /\ m_dwWriteIndex <= m_dwBackIndex
         /\ m_dwBackIndex <= m_dwFrontIndex + Capacity
         /\ index \in [Threads -> Nat]
  BY DEF IInv, TypeOK, Ring, IndicesOrdered

(* A step of one thread leaves the others where they are. *)
LEMMA StepIs ==
  ASSUME TypeOK, NEW t \in Threads, NEW from, NEW to, Step(t, from, to)
  PROVE  /\ pc[t] = from /\ pc'[t] = to
         /\ \A u \in Threads : u # t => pc'[u] = pc[u]
         /\ to \in PushLabels \cup PopLabels \cup {"idle"} =>
              pc' \in [Threads -> PushLabels \cup PopLabels \cup {"idle"}]
  BY DEF TypeOK, Step

(* A step that changes where one thread stands, and at most what it has    *)
(* loaded or holds, and leaves the ring alone, keeps the invariant if that *)
(* thread's part of it is kept and the thread comes to no slot.            *)
LEMMA LocalStep ==
  ASSUME IInv, TypeOK', NEW t \in Threads,
         UNCHANGED <<m_vecItems, indices, order>>,
         \A u \in Threads : u # t =>
           pc'[u] = pc[u] /\ index'[u] = index[u] /\ item'[u] = item[u],
         Loaded(t)', Held(t)', Contents(t)',
         pc'[t] \in Filling \cup Emptying =>
           index'[t] = index[t] /\ (pc[t] \in Filling <=> pc'[t] \in Filling)
                              /\ (pc[t] \in Emptying <=> pc'[t] \in Emptying)
  PROVE  IInv'
<1> USE DEF indices
<1>1. Ring' /\ Published'
  BY DEF IInv, Ring, IndicesOrdered, Published, ItemAt, Slot
<1>2. \A u \in Threads : Loaded(u)'
  BY DEF IInv, Loaded
<1>3. \A u \in Threads : Held(u)'
  BY DEF IInv, Held
<1>4. \A u \in Threads : Contents(u)'
  BY DEF IInv, Contents, ItemAt, Slot
<1>5. \A u, v \in Threads : Apart(u, v)'
  BY DEF IInv, Apart
<1> QED
  BY <1>1, <1>2, <1>3, <1>4, <1>5 DEF IInv

LEMMA PushKeeps ==
  ASSUME IInv, NEW t \in Threads, Push(t)
  PROVE  IInv'
<1>1. TypeOK
  BY DEF IInv
<1>2. pushes + 1 \in Items
  BY <1>1, Sizes DEF TypeOK, Push, Items
<1>3. /\ pc[t] = "idle" /\ pc'[t] = "pushLoad"
      /\ \A u \in Threads : u # t => pc'[u] = pc[u]
      /\ pc' \in [Threads -> PushLabels \cup PopLabels \cup {"idle"}]
  BY <1>1, StepIs DEF Push, PushLabels
<1>4. item'[t] \in Items /\ item' \in [Threads -> Items \cup {NoItem}]
  BY <1>1, <1>2 DEF Push, TypeOK
<1>5. TypeOK'
  BY <1>1, <1>2, <1>3, <1>4 DEF Push, indices, TypeOK, Items
<1>6. Loaded(t)' /\ Held(t)' /\ Contents(t)'
  BY <1>3, <1>4 DEF Loaded, Held, Contents, Filling, Emptying
<1>7. \A u \in Threads : u # t => item'[u] = item[u]
  BY <1>1 DEF Push, TypeOK
<1> QED
  BY <1>3, <1>5, <1>6, <1>7, LocalStep DEF Push, Filling, Emptying

LEMMA PopKeeps ==
  ASSUME IInv, NEW t \in Threads, Pop(t)
  PROVE  IInv'
<1>1. TypeOK
  BY DEF IInv
<1>2. pops' \in 0 .. MaxPops
  BY <1>1, Sizes DEF TypeOK, Pop
<1>3. /\ pc[t] = "idle" /\ pc'[t] = "popLoad"
      /\ \A u \in Threads : u # t => pc'[u] = pc[u]
      /\ pc' \in [Threads -> PushLabels \cup PopLabels \cup {"idle"}]
  BY <1>1, StepIs DEF Pop, PopLabels
<1>4. TypeOK'
  BY <1>1, <1>2, <1>3 DEF Pop, indices, TypeOK
<1>5. Loaded(t)' /\ Held(t)' /\ Contents(t)'
  BY <1>3 DEF Loaded, Held, Contents, Filling, Emptying, PushLabels
<1> QED
  BY <1>3, <1>4, <1>5, LocalStep DEF Pop, Filling, Emptying

LEMMA LoadKeeps ==
  ASSUME IInv, NEW t \in Threads, PushLoadBack(t) \/ PopLoadRead(t)
  PROVE  IInv'
<1>1. TypeOK
  BY DEF IInv
<1>2. /\ \/ pc[t] = "pushLoad" /\ pc'[t] = "pushCheck" /\ index'[t] = m_dwBackIndex
         \/ pc[t] = "popLoad" /\ pc'[t] = "popCheck" /\ index'[t] = m_dwReadIndex
      /\ \A u \in Threads : u # t => pc'[u] = pc[u] /\ index'[u] = index[u]
      /\ pc' \in [Threads -> PushLabels \cup PopLabels \cup {"idle"}]
      /\ index' \in [Threads -> Nat]
  <2>1. CASE PushLoadBack(t)
    BY <1>1, <2>1, StepIs DEF PushLoadBack, PushLabels, Load, TypeOK
  <2>2. CASE PopLoadRead(t)
    BY <1>1, <2>2, StepIs DEF PopLoadRead, PopLabels, Load, TypeOK
  <2> QED
    BY <2>1, <2>2
<1>3. UNCHANGED <<m_vecItems, indices, item, pushes, pops, order>>
  BY DEF PushLoadBack, PopLoadRead
<1>4. TypeOK'
  BY <1>1, <1>2, <1>3 DEF indices, TypeOK
<1>5. Held(t)' /\ Contents(t)'
  BY <1>2, <1>3 DEF IInv, Held, Contents, Filling, Emptying, PushLabels
<1>6. Loaded(t)'
  BY <1>2, <1>3, Numbers DEF Loaded, indices
<1> QED
  BY <1>2, <1>3, <1>4, <1>5, <1>6, LocalStep DEF Filling, Emptying

(* Whatever else has moved since the back index was loaded, the ring is    *)
(* full when Push finds it so, and has room if Push is still to exchange   *)
(* the index it loaded.                                                    *)
LEMMA PushCheckIs ==
  ASSUME IInv, NEW t \in Threads, PushCheck(t)
  PROVE  /\ pc'[t] \in {"idle", "pushExchange"}
         /\ pc'[t] = "idle" => m_dwBackIndex = m_dwFrontIndex + Capacity
         /\ pc'[t] = "pushExchange" /\ index[t] = m_dwBackIndex =>
              m_dwBackIndex < m_dwFrontIndex + Capacity
<1>1. TypeOK /\ pc[t] = "pushCheck"
  BY DEF IInv, PushCheck, Step
<1>2. index[t] \in Nat /\ index[t] <= m_dwBackIndex
  BY <1>1 DEF IInv, Loaded, TypeOK
<1>3. m_dwBackIndex - index[t] < Modulus - Capacity
  BY DEF PushCheck, NotLapped
<1>4. Distance(index[t], m_dwFrontIndex) =
        IF index[t] >= m_dwFrontIndex THEN index[t] - m_dwFrontIndex
        ELSE index[t] - m_dwFrontIndex + Modulus
  BY <1>2, <1>3, Numbers, Sizes, DistanceIs
<1>5. Distance(index[t], m_dwFrontIndex) = Capacity <=>
        index[t] = m_dwFrontIndex + Capacity
  BY <1>2, <1>3, <1>4, Numbers, Sizes
<1>6. pc'[t] = IF Distance(index[t], m_dwFrontIndex) = Capacity
                 THEN "idle" ELSE "pushExchange"
  BY <1>1, StepIs DEF PushCheck
<1> QED
  BY <1>2, <1>5, <1>6, Numbers, Sizes

LEMMA PushCheckKeeps ==
  ASSUME IInv, NEW t \in Threads, PushCheck(t)
  PROVE  IInv'
<1>1. TypeOK /\ pc[t] = "pushCheck"
  BY DEF IInv, PushCheck, Step
<1>2. /\ pc'[t] \in {"idle", "pushExchange"}
      /\ pc'[t] = "pushExchange" /\ index[t] = m_dwBackIndex =>
           m_dwBackIndex < m_dwFrontIndex + Capacity
  BY PushCheckIs
<1>3. \A u \in Threads : u # t => pc'[u] = pc[u]
  BY <1>1, StepIs DEF PushCheck
<1>4. pc' \in [Threads -> PushLabels \cup PopLabels \cup {"idle"}]
  BY <1>1, <1>2 DEF TypeOK, PushCheck, Step, PushLabels
<1>5. UNCHANGED <<m_vecItems, indices, item, index, pushes, pops, order>>
  BY DEF PushCheck
<1>6. TypeOK'
  BY <1>1, <1>4, <1>5 DEF TypeOK, indices
<1>7. Held(t)' /\ Contents(t)'
  BY <1>1, <1>2, <1>5 DEF IInv, Held, Contents, Filling, Emptying, PushLabels
<1>8. Loaded(t)'
  BY <1>1, <1>2, <1>5 DEF IInv, Loaded, indices
<1> QED
  BY <1>2, <1>3, <1>5, <1>6, <1>7, <1>8, LocalStep DEF Filling, Emptying

(* The same of Pop and an empty ring. *)
LEMMA PopCheckIs ==
  ASSUME IInv, NEW t \in Threads, PopCheck(t)
  PROVE  /\ pc'[t] \in {"idle", "popExchange"}
         /\ pc'[t] = "idle" => m_dwReadIndex = m_dwWriteIndex
         /\ pc'[t] = "popExchange" /\ index[t] = m_dwReadIndex =>
              m_dwReadIndex < m_dwWriteIndex
<1>1. TypeOK /\ pc[t] = "popCheck"
  BY DEF IInv, PopCheck, Step
<1>2. index[t] \in Nat /\ index[t] <= m_dwReadIndex
  BY <1>1 DEF IInv, Loaded, TypeOK
<1>3. m_dwReadIndex - index[t] < Modulus - Capacity
  BY DEF PopCheck, NotLapped
<1>4. Distance(m_dwWriteIndex, index[t]) = m_dwWriteIndex - index[t]
  BY <1>2, <1>3, Numbers, Sizes, DistanceIs, SMTT(40)
<1>5. pc'[t] = IF Distance(m_dwWriteIndex, index[t]) = 0
                 THEN "idle" ELSE "popExchange"
  BY <1>1, StepIs DEF PopCheck
<1> QED
  BY <1>2, <1>4, <1>5, Numbers

LEMMA PopCheckKeeps ==
  ASSUME IInv, NEW t \in Threads, PopCheck(t)
  PROVE  IInv'
<1>1. TypeOK /\ pc[t] = "popCheck"
  BY DEF IInv, PopCheck, Step
<1>2. /\ pc'[t] \in {"idle", "popExchange"}
      /\ pc'[t] = "popExchange" /\ index[t] = m_dwReadIndex =>
           m_dwReadIndex < m_dwWriteIndex
  BY PopCheckIs
<1>3. \A u \in Threads : u # t => pc'[u] = pc[u]
  BY <1>1, StepIs DEF PopCheck
<1>4. pc' \in [Threads -> PushLabels \cup PopLabels \cup {"idle"}]
  BY <1>1, <1>2 DEF TypeOK, PopCheck, Step, PopLabels
<1>5. UNCHANGED <<m_vecItems, indices, item, index, pushes, pops, order>>
  BY DEF PopCheck
<1>6. TypeOK'
  BY <1>1, <1>4, <1>5 DEF TypeOK, indices
<1>7. Held(t)' /\ Contents(t)'
  BY <1>1, <1>2, <1>5 DEF IInv, Held, Contents, Filling, Emptying, PushLabels
<1>8. Loaded(t)'
  BY <1>1, <1>2, <1>5 DEF IInv, Loaded, indices
<1> QED
  BY <1>2, <1>3, <1>5, <1>6, <1>7, <1>8, LocalStep DEF Filling, Emptying

(* Slots between the front index and the front index plus the capacity.    *)
LEMMA InRing ==
  ASSUME IInv, NEW i \in Nat, NEW j \in Nat, i # j,
         m_dwFrontIndex <= i, i < m_dwBackIndex,
         m_dwFrontIndex <= j, j < m_dwBackIndex
  PROVE  Slot(i) # Slot(j)
<1>1. i - j < Capacity /\ j - i < Capacity
  BY Numbers, Sizes
<1> QED
  BY <1>1, SlotsDiffer

(* The exchange fails: the index is loaded again. *)
LEMMA ExchangeFails ==
  ASSUME IInv, NEW t \in Threads,
         \/ Step(t, "pushExchange", "pushLoad")
         \/ Step(t, "popExchange", "popLoad"),
         UNCHANGED <<m_vecItems, indices, item, index, pushes, pops, order>>
  PROVE  IInv'
<1>1. TypeOK
  BY DEF IInv
<1>2. /\ \/ pc[t] = "pushExchange" /\ pc'[t] = "pushLoad"
         \/ pc[t] = "popExchange" /\ pc'[t] = "popLoad"
      /\ \A u \in Threads : u # t => pc'[u] = pc[u]
      /\ pc' \in [Threads -> PushLabels \cup PopLabels \cup {"idle"}]
  BY <1>1, StepIs DEF PushLabels, PopLabels
<1>3. TypeOK'
  BY <1>1, <1>2 DEF TypeOK, indices
<1>4. Loaded(t)' /\ Held(t)' /\ Contents(t)'
  BY <1>2 DEF IInv, Loaded, Held, Contents, Filling, Emptying, PushLabels
<1> QED
  BY <1>2, <1>3, <1>4, LocalStep DEF Filling, Emptying

(* The exchange of the back index succeeds: the thread has its slot, and   *)
(* there was room, because the index is the one it compared with.          *)
LEMMA PushTakes ==
  ASSUME IInv, NEW t \in Threads, PushExchange(t), Same(m_dwBackIndex, index[t])
  PROVE  IInv'
<1>1. /\ TypeOK /\ NotLapped(t, m_dwBackIndex) /\ Step(t, "pushExchange", "pushItem")
      /\ m_dwBackIndex' = m_dwBackIndex + 1 /\ order' = Append(order, item[t])
      /\ UNCHANGED <<m_vecItems, m_dwFrontIndex, m_dwReadIndex, m_dwWriteIndex,
                     item, index, pushes, pops>>
  BY DEF IInv, PushExchange
<1>2. /\ pc[t] = "pushExchange" /\ pc'[t] = "pushItem"
      /\ \A u \in Threads : u # t => pc'[u] = pc[u]
      /\ pc' \in [Threads -> PushLabels \cup PopLabels \cup {"idle"}]
  BY <1>1, StepIs DEF PushLabels
<1>3. index[t] \in Nat /\ index[t] <= m_dwBackIndex /\ item[t] \in Items
  BY <1>1, <1>2 DEF IInv, Loaded, Held, TypeOK, PushLabels
<1>4. index[t] = m_dwBackIndex
  <2>1. m_dwBackIndex - index[t] < Modulus /\ index[t] - m_dwBackIndex < Modulus
    BY <1>1, <1>3, Numbers, Sizes, SMTT(40) DEF NotLapped
  <2> QED
    BY <2>1, <1>3, Numbers, SameIsEqual
<1>5. m_dwBackIndex < m_dwFrontIndex + Capacity
  BY <1>2, <1>4 DEF IInv, Loaded
<1>6. /\ order \in Seq(Items) /\ order' \in Seq(Items) /\ Len(order') = Len(order) + 1
      /\ order'[Len(order) + 1] = item[t]
      /\ \A n \in 1 .. Len(order) : order'[n] = order[n]
  BY <1>1, <1>3 DEF TypeOK
<1>7. m_dwBackIndex = Seed + Len(order) /\ Len(order) \in Nat
  BY <1>1 DEF TypeOK
<1>8. /\ \A n \in Nat : Seed <= n /\ n < m_dwBackIndex =>
           order'[n - Seed + 1] = order[n - Seed + 1]
      /\ order'[m_dwBackIndex - Seed + 1] = item[t]
  BY <1>6, <1>7, Sizes, SMTT(40)
<1>9. TypeOK'
  BY <1>1, <1>2, <1>6, <1>7, Numbers, Sizes, SMTT(40) DEF TypeOK
<1>10. Ring'
  BY <1>1, <1>5, Numbers, Sizes, SMTT(40) DEF Ring, IndicesOrdered
<1>11. Published'
  <2> SUFFICES ASSUME NEW n \in m_dwReadIndex .. m_dwWriteIndex - 1
               PROVE  m_vecItems[Slot(n)] = order'[n - Seed + 1]
    BY <1>1 DEF Published, ItemAt, Slot
  <2>1. n \in Nat /\ Seed <= n /\ n < m_dwBackIndex
    BY Numbers, Sizes
  <2>2. m_vecItems[Slot(n)] = order[n - Seed + 1]
    BY DEF IInv, Published, ItemAt
  <2> QED
    BY <2>1, <2>2, <1>8
<1>12. ASSUME NEW u \in Threads PROVE Loaded(u)'
  <2>1. Loaded(u) /\ index[u] \in Nat
    BY <1>1 DEF IInv, TypeOK
  <2>2. CASE u = t
    BY <2>2, <1>2 DEF Loaded
  <2>3. CASE u # t
    BY <2>1, <2>3, <1>1, <1>2, Numbers DEF Loaded
  <2> QED
    BY <2>2, <2>3
<1>13. ASSUME NEW u \in Threads PROVE Held(u)'
  <2>1. Held(u) /\ index[u] \in Nat
    BY <1>1 DEF IInv, TypeOK
  <2>2. CASE u = t
    BY <2>2, <1>1, <1>2, <1>3, <1>4, Numbers DEF Held, Filling, Emptying
  <2>3. CASE u # t
    BY <2>1, <2>3, <1>1, <1>2, Numbers DEF Held
  <2> QED
    BY <2>2, <2>3
<1>14. ASSUME NEW u \in Threads, NEW v \in Threads PROVE Apart(u, v)'
  <2>1. Apart(u, v) /\ Held(u) /\ Held(v) /\ index[u] \in Nat /\ index[v] \in Nat
    BY <1>1 DEF IInv, TypeOK
  <2>2. CASE u # t /\ v # t
    BY <2>1, <2>2, <1>1, <1>2 DEF Apart
  <2>3. CASE u = t /\ v # t
    BY <2>1, <2>3, <1>1, <1>2, <1>4, Numbers DEF Apart, Held, Filling, Emptying
  <2>4. CASE u # t /\ v = t
    BY <2>1, <2>4, <1>1, <1>2, <1>4, Numbers DEF Apart, Held, Filling, Emptying
  <2>5. CASE u = v
    BY <2>5 DEF Apart
  <2> QED
    BY <2>2, <2>3, <2>4, <2>5
<1>15. ASSUME NEW u \in Threads PROVE Contents(u)'
  <2>1. Contents(u) /\ Held(u) /\ index[u] \in Nat
    BY <1>1 DEF IInv, TypeOK
  <2>2. CASE u = t
    BY <2>2, <1>1, <1>2, <1>4, <1>8 DEF Contents, ItemAt
  <2>3. CASE u # t
    <3>1. CASE pc[u] \in Filling \cup Emptying
      <4>1. Seed <= index[u] /\ index[u] < m_dwBackIndex
        BY <2>1, <3>1, Numbers, Sizes DEF Held
      <4>2. order'[index[u] - Seed + 1] = order[index[u] - Seed + 1]
        BY <4>1, <2>1, <1>8
      <4> QED
        BY <4>2, <2>1, <2>3, <1>1, <1>2 DEF Contents, ItemAt, Slot
    <3>2. CASE pc[u] \notin Filling \cup Emptying
      BY <3>2, <2>3, <1>2 DEF Contents, Filling, Emptying
    <3> QED
      BY <3>1, <3>2
  <2> QED
    BY <2>2, <2>3
<1> QED
  BY <1>9, <1>10, <1>11, <1>12, <1>13, <1>14, <1>15 DEF IInv

(* A slot is filled that no other thread has and that holds no item that   *)
(* is published.                                                           *)
LEMMA PushItemKeeps ==
  ASSUME IInv, NEW t \in Threads, PushItem(t)
  PROVE  IInv'
<1>1. /\ TypeOK /\ Step(t, "pushItem", "pushWrite")
      /\ m_vecItems' = [m_vecItems EXCEPT ![Slot(index[t])] = item[t]]
      /\ UNCHANGED <<indices, item, index, pushes, pops, order>>
  BY DEF IInv, PushItem
<1>2. /\ pc[t] = "pushItem" /\ pc'[t] = "pushWrite"
      /\ \A u \in Threads : u # t => pc'[u] = pc[u]
      /\ pc' \in [Threads -> PushLabels \cup PopLabels \cup {"idle"}]
  BY <1>1, StepIs DEF PushLabels
<1>3. /\ index[t] \in Nat /\ m_dwWriteIndex <= index[t] /\ index[t] < m_dwBackIndex
      /\ item[t] \in Items /\ item[t] = ItemAt(index[t])
  BY <1>1, <1>2 DEF IInv, Held, Contents, TypeOK, PushLabels, Filling
<1>4. Slot(index[t]) \in 0 .. Capacity - 1
  BY <1>3, SlotIs
<1>5. m_vecItems'[Slot(index[t])] = item[t]
  BY <1>1, <1>4 DEF TypeOK
<1>6. ASSUME NEW n \in Nat, n # index[t], m_dwFrontIndex <= n, n < m_dwBackIndex
      PROVE  m_vecItems'[Slot(n)] = m_vecItems[Slot(n)]
  <2>1. Slot(n) # Slot(index[t])
    BY <1>3, <1>6, InRing, Numbers
  <2>2. Slot(n) \in 0 .. Capacity - 1
    BY SlotIs
  <2> QED
    BY <2>1, <2>2, <1>1 DEF TypeOK
<1>7. TypeOK'
  BY <1>1, <1>2, <1>3, <1>4 DEF TypeOK, indices
<1>8. Ring'
  BY <1>1 DEF IInv, Ring, IndicesOrdered, indices
<1>9. Published'
  <2> SUFFICES ASSUME NEW n \in m_dwReadIndex .. m_dwWriteIndex - 1
               PROVE  m_vecItems'[Slot(n)] = ItemAt(n)
    BY <1>1 DEF Published, ItemAt, Slot, indices
  <2>1. n \in Nat /\ n # index[t] /\ m_dwFrontIndex <= n /\ n < m_dwBackIndex
    BY <1>3, Numbers
  <2> QED
    BY <2>1, <1>6 DEF IInv, Published
<1>10. \A u \in Threads : Loaded(u)'
  BY <1>1, <1>2 DEF IInv, Loaded, indices
<1>11. \A u \in Threads : Held(u)'
  BY <1>1, <1>2 DEF IInv, Held, indices, Filling, Emptying, PushLabels
<1>12. \A u, v \in Threads : Apart(u, v)'
  BY <1>1, <1>2 DEF IInv, Apart, Filling, Emptying
<1>13. ASSUME NEW u \in Threads PROVE Contents(u)'
  <2>1. Contents(u) /\ Held(u) /\ index[u] \in Nat
    BY <1>1 DEF IInv, TypeOK
  <2>2. CASE u = t
    BY <2>2, <1>1, <1>2, <1>3, <1>5 DEF Contents, ItemAt, Slot
  <2>3. CASE u # t /\ pc[u] \in {"pushWrite", "popItem"}
    <3>1. index[u] # index[t] /\ m_dwFrontIndex <= index[u] /\ index[u] < m_dwBackIndex
      <4>1. CASE pc[u] = "pushWrite"
        <5>1. Apart(u, t)
          BY DEF IInv
        <5> QED
          BY <5>1, <4>1, <2>1, <2>3, <1>2, Numbers DEF Apart, Held, Filling
      <4>2. CASE pc[u] = "popItem"
        BY <4>2, <2>1, <1>3, Numbers DEF Held, Emptying
      <4> QED
        BY <4>1, <4>2, <2>3
    <3>2. m_vecItems'[Slot(index[u])] = m_vecItems[Slot(index[u])]
      BY <3>1, <2>1, <1>6
    <3> QED
      BY <3>2, <2>1, <2>3, <1>1, <1>2 DEF Contents, ItemAt, Slot
  <2>4. CASE u # t /\ pc[u] \notin {"pushWrite", "popItem"}
    BY <2>4, <2>1, <1>1, <1>2 DEF Contents, ItemAt
  <2> QED
    BY <2>2, <2>3, <2>4
<1> QED
  BY <1>7, <1>8, <1>9, <1>10, <1>11, <1>12, <1>13 DEF IInv

(* The thread whose slot follows those published publishes it.             *)
LEMMA PushWriteKeeps ==
  ASSUME IInv, NEW t \in Threads, PushWrite(t)
  PROVE  IInv'
<1>1. /\ TypeOK /\ Step(t, "pushWrite", "idle") /\ Same(m_dwWriteIndex, index[t])
      /\ m_dwWriteIndex' = m_dwWriteIndex + 1
      /\ UNCHANGED <<m_vecItems, m_dwFrontIndex, m_dwBackIndex, m_dwReadIndex,
                     item, index, pushes, pops, order>>
  BY DEF IInv, PushWrite
<1>2. /\ pc[t] = "pushWrite" /\ pc'[t] = "idle"
      /\ \A u \in Threads : u # t => pc'[u] = pc[u]
      /\ pc' \in [Threads -> PushLabels \cup PopLabels \cup {"idle"}]
  BY <1>1, StepIs
<1>3. /\ index[t] \in Nat /\ m_dwWriteIndex <= index[t] /\ index[t] < m_dwBackIndex
      /\ m_vecItems[Slot(index[t])] = ItemAt(index[t])
  BY <1>1, <1>2 DEF IInv, Held, Contents, TypeOK, Filling
<1>4. index[t] = m_dwWriteIndex
  <2>1. m_dwWriteIndex - index[t] < Modulus /\ index[t] - m_dwWriteIndex < Modulus
    BY <1>3, Numbers, Sizes
  <2> QED
    BY <2>1, <1>1, <1>3, Numbers, SameIsEqual
<1>5. TypeOK'
  BY <1>1, <1>2, Numbers DEF TypeOK
<1>6. Ring'
  BY <1>1, <1>3, <1>4, Numbers, Sizes DEF Ring, IndicesOrdered
<1>7. Published'
  <2> SUFFICES ASSUME NEW n \in m_dwReadIndex .. m_dwWriteIndex
               PROVE  m_vecItems[Slot(n)] = ItemAt(n)
    BY <1>1, Numbers DEF Published, ItemAt, Slot
  <2>1. CASE n = m_dwWriteIndex
    BY <2>1, <1>3, <1>4
  <2>2. CASE n \in m_dwReadIndex .. m_dwWriteIndex - 1
    BY <2>2 DEF IInv, Published
  <2> QED
    BY <2>1, <2>2, Numbers
<1>8. ASSUME NEW u \in Threads PROVE Loaded(u)'
  <2>1. Loaded(u)
    BY DEF IInv
  <2> QED
    BY <2>1, <1>1, <1>2, Numbers DEF Loaded
<1>9. ASSUME NEW u \in Threads PROVE Held(u)'
  <2>1. Held(u) /\ index[u] \in Nat
    BY <1>1 DEF IInv, TypeOK
  <2>2. CASE u = t
    BY <2>2, <1>2 DEF Held, Filling, Emptying, PushLabels
  <2>3. CASE u # t
    <3>1. pc[u] \in Filling => index[u] # m_dwWriteIndex
      <4>1. Apart(u, t)
        BY DEF IInv
      <4> QED
        BY <4>1, <2>3, <1>2, <1>4 DEF Apart, Filling
    <3> QED
      BY <3>1, <2>1, <2>3, <1>1, <1>2, Numbers DEF Held
  <2> QED
    BY <2>2, <2>3
<1>10. \A u, v \in Threads : Apart(u, v)'
  BY <1>1, <1>2 DEF IInv, Apart, Filling, Emptying
<1>11. \A u \in Threads : Contents(u)'
  BY <1>1, <1>2 DEF IInv, Contents, ItemAt, Slot
<1> QED
  BY <1>5, <1>6, <1>7, <1>8, <1>9, <1>10, <1>11 DEF IInv

(* The exchange of the read index succeeds: the thread has an item that is *)
(* published.                                                              *)
LEMMA PopTakes ==
  ASSUME IInv, NEW t \in Threads, PopExchange(t), Same(m_dwReadIndex, index[t])
  PROVE  IInv'
<1>1. /\ TypeOK /\ NotLapped(t, m_dwReadIndex) /\ Step(t, "popExchange", "popItem")
      /\ m_dwReadIndex' = m_dwReadIndex + 1
      /\ UNCHANGED <<m_vecItems, m_dwFrontIndex, m_dwBackIndex, m_dwWriteIndex,
                     item, index, pushes, pops, order>>
  BY DEF IInv, PopExchange
<1>2. /\ pc[t] = "popExchange" /\ pc'[t] = "popItem"
      /\ \A u \in Threads : u # t => pc'[u] = pc[u]
      /\ pc' \in [Threads -> PushLabels \cup PopLabels \cup {"idle"}]
  BY <1>1, StepIs DEF PopLabels
<1>3. index[t] \in Nat /\ index[t] <= m_dwReadIndex
  BY <1>1, <1>2 DEF IInv, Loaded, TypeOK
<1>4. index[t] = m_dwReadIndex
  <2>1. m_dwReadIndex - index[t] < Modulus /\ index[t] - m_dwReadIndex < Modulus
    BY <1>1, <1>3, Numbers, Sizes DEF NotLapped
  <2> QED
    BY <2>1, <1>1, <1>3, Numbers, SameIsEqual
<1>5. m_dwReadIndex < m_dwWriteIndex
  BY <1>2, <1>4 DEF IInv, Loaded
<1>6. m_vecItems[Slot(index[t])] = ItemAt(index[t])
  <2>1. index[t] \in m_dwReadIndex .. m_dwWriteIndex - 1
    BY <1>4, <1>5, Numbers
  <2> QED
    BY <2>1 DEF IInv, Published
<1>7. TypeOK'
  BY <1>1, <1>2, Numbers DEF TypeOK
<1>8. Ring'
  BY <1>1, <1>5, Numbers, Sizes DEF Ring, IndicesOrdered
<1>9. Published'
  <2> SUFFICES ASSUME NEW n \in m_dwReadIndex + 1 .. m_dwWriteIndex - 1
               PROVE  m_vecItems[Slot(n)] = ItemAt(n)
    BY <1>1 DEF Published, ItemAt, Slot
  <2>1. n \in m_dwReadIndex .. m_dwWriteIndex - 1
    BY Numbers
  <2> QED
    BY <2>1 DEF IInv, Published
<1>10. ASSUME NEW u \in Threads PROVE Loaded(u)'
  <2>1. Loaded(u) /\ index[u] \in Nat
    BY <1>1 DEF IInv, TypeOK
  <2>2. CASE u = t
    BY <2>2, <1>2 DEF Loaded
  <2>3. CASE u # t
    BY <2>1, <2>3, <1>1, <1>2, Numbers DEF Loaded
  <2> QED
    BY <2>2, <2>3
<1>11. ASSUME NEW u \in Threads PROVE Held(u)'
  <2>1. Held(u) /\ index[u] \in Nat
    BY <1>1 DEF IInv, TypeOK
  <2>2. CASE u = t
    BY <2>2, <1>1, <1>2, <1>3, <1>4, Numbers DEF Held, Filling, Emptying, PushLabels
  <2>3. CASE u # t
    BY <2>1, <2>3, <1>1, <1>2, Numbers DEF Held
  <2> QED
    BY <2>2, <2>3
<1>12. ASSUME NEW u \in Threads, NEW v \in Threads PROVE Apart(u, v)'
  <2>1. Apart(u, v) /\ Held(u) /\ Held(v) /\ index[u] \in Nat /\ index[v] \in Nat
    BY <1>1 DEF IInv, TypeOK
  <2>2. CASE u # t /\ v # t
    BY <2>1, <2>2, <1>1, <1>2 DEF Apart
  <2>3. CASE u = t /\ v # t
    BY <2>1, <2>3, <1>1, <1>2, <1>4, Numbers DEF Apart, Held, Filling, Emptying
  <2>4. CASE u # t /\ v = t
    BY <2>1, <2>4, <1>1, <1>2, <1>4, Numbers DEF Apart, Held, Filling, Emptying
  <2>5. CASE u = v
    BY <2>5 DEF Apart
  <2> QED
    BY <2>2, <2>3, <2>4, <2>5
<1>13. \A u \in Threads : Contents(u)'
  BY <1>1, <1>2, <1>6 DEF IInv, Contents, ItemAt, Slot
<1> QED
  BY <1>7, <1>8, <1>9, <1>10, <1>11, <1>12, <1>13 DEF IInv

LEMMA PopItemKeeps ==
  ASSUME IInv, NEW t \in Threads, PopItem(t)
  PROVE  IInv'
<1>1. /\ TypeOK /\ Step(t, "popItem", "popFront")
      /\ item' = [item EXCEPT ![t] = m_vecItems[Slot(index[t])]]
      /\ UNCHANGED <<m_vecItems, indices, index, pushes, pops, order>>
  BY DEF IInv, PopItem
<1>2. /\ pc[t] = "popItem" /\ pc'[t] = "popFront"
      /\ \A u \in Threads : u # t => pc'[u] = pc[u]
      /\ pc' \in [Threads -> PushLabels \cup PopLabels \cup {"idle"}]
  BY <1>1, StepIs DEF PopLabels
<1>3. /\ index[t] \in Nat /\ m_vecItems[Slot(index[t])] = ItemAt(index[t])
      /\ m_vecItems[Slot(index[t])] \in Items \cup {NoItem}
  BY <1>1, <1>2, SlotIs DEF IInv, Contents, TypeOK
<1>4. /\ item'[t] = ItemAt(index[t])
      /\ \A u \in Threads : u # t => item'[u] = item[u]
      /\ item' \in [Threads -> Items \cup {NoItem}]
  BY <1>1, <1>3 DEF TypeOK
<1>5. TypeOK'
  BY <1>1, <1>2, <1>4 DEF TypeOK, indices
<1>6. Loaded(t)'
  BY <1>2 DEF Loaded
<1>7. Held(t)'
  BY <1>1, <1>2 DEF IInv, Held, Filling, Emptying, PushLabels, indices
<1>8. Contents(t)'
  BY <1>1, <1>2, <1>4 DEF Contents, ItemAt
<1> QED
  BY <1>1, <1>2, <1>4, <1>5, <1>6, <1>7, <1>8, LocalStep DEF Filling, Emptying

(* The thread whose slot is the first that is taken gives it back.         *)
LEMMA PopFrontKeeps ==
  ASSUME IInv, NEW t \in Threads, PopFront(t)
  PROVE  IInv'
<1>1. /\ TypeOK /\ Step(t, "popFront", "idle") /\ Same(m_dwFrontIndex, index[t])
      /\ m_dwFrontIndex' = m_dwFrontIndex + 1
      /\ UNCHANGED <<m_vecItems, m_dwBackIndex, m_dwReadIndex, m_dwWriteIndex,
                     item, index, pushes, pops, order>>
  BY DEF IInv, PopFront
<1>2. /\ pc[t] = "popFront" /\ pc'[t] = "idle"
      /\ \A u \in Threads : u # t => pc'[u] = pc[u]
      /\ pc' \in [Threads -> PushLabels \cup PopLabels \cup {"idle"}]
  BY <1>1, StepIs
<1>3. index[t] \in Nat /\ m_dwFrontIndex <= index[t] /\ index[t] < m_dwReadIndex
  BY <1>1, <1>2 DEF IInv, Held, TypeOK, Emptying
<1>4. index[t] = m_dwFrontIndex
  <2>1. m_dwFrontIndex - index[t] < Modulus /\ index[t] - m_dwFrontIndex < Modulus
    BY <1>3, Numbers, Sizes
  <2> QED
    BY <2>1, <1>1, <1>3, Numbers, SameIsEqual
<1>5. TypeOK'
  BY <1>1, <1>2, Numbers DEF TypeOK
<1>6. Ring'
  BY <1>1, <1>3, <1>4, Numbers, Sizes DEF Ring, IndicesOrdered
<1>7. Published'
  BY <1>1 DEF IInv, Published, ItemAt, Slot
<1>8. ASSUME NEW u \in Threads PROVE Loaded(u)'
  <2>1. Loaded(u)
    BY DEF IInv
  <2> QED
    BY <2>1, <1>1, <1>2, Numbers, Sizes DEF Loaded
<1>9. ASSUME NEW u \in Threads PROVE Held(u)'
  <2>1. Held(u) /\ index[u] \in Nat
    BY <1>1 DEF IInv, TypeOK
  <2>2. CASE u = t
    BY <2>2, <1>2 DEF Held, Filling, Emptying, PushLabels
  <2>3. CASE u # t
    <3>1. pc[u] \in Emptying => index[u] # m_dwFrontIndex
      <4>1. Apart(u, t)
        BY DEF IInv
      <4> QED
        BY <4>1, <2>3, <1>2, <1>4 DEF Apart, Emptying
    <3> QED
      BY <3>1, <2>1, <2>3, <1>1, <1>2, Numbers DEF Held
  <2> QED
    BY <2>2, <2>3
<1>10. \A u, v \in Threads : Apart(u, v)'
  BY <1>1, <1>2 DEF IInv, Apart, Filling, Emptying
<1>11. \A u \in Threads : Contents(u)'
  BY <1>1, <1>2 DEF IInv, Contents, ItemAt, Slot
<1> QED
  BY <1>5, <1>6, <1>7, <1>8, <1>9, <1>10, <1>11 DEF IInv

(* Every step keeps the invariant. *)
LEMMA NextIInv == IInv /\ [Next]_vars => IInv'
<1> SUFFICES ASSUME IInv, [Next]_vars PROVE IInv'
  OBVIOUS
<1>1. ASSUME NEW t \in Threads, PushExchange(t) PROVE IInv'
  <2>1. CASE Same(m_dwBackIndex, index[t])
    BY <1>1, <2>1, PushTakes
  <2>2. CASE ~Same(m_dwBackIndex, index[t])
    BY <1>1, <2>2, ExchangeFails DEF PushExchange, indices
  <2> QED
    BY <2>1, <2>2
<1>2. ASSUME NEW t \in Threads, PopExchange(t) PROVE IInv'
  <2>1. CASE Same(m_dwReadIndex, index[t])
    BY <1>2, <2>1, PopTakes
  <2>2. CASE ~Same(m_dwReadIndex, index[t])
    BY <1>2, <2>2, ExchangeFails DEF PopExchange, indices
  <2> QED
    BY <2>1, <2>2
<1>3. ASSUME NEW t \in Threads, Push(t) \/ Pop(t) \/ Running(t) PROVE IInv'
  BY <1>1, <1>2, <1>3, PushKeeps, PopKeeps, LoadKeeps, PushCheckKeeps,
     PopCheckKeeps, PushItemKeeps, PushWriteKeeps, PopItemKeeps, PopFrontKeeps
     DEF Running
<1>4. CASE UNCHANGED vars
  <2> USE <1>4 DEF vars, indices
  <2>1. TypeOK' /\ Ring' /\ Published'
    BY DEF IInv, TypeOK, Ring, IndicesOrdered, Published, ItemAt, Slot
  <2>2. \A t \in Threads : Loaded(t)' /\ Held(t)'
    BY DEF IInv, Loaded, Held
  <2>3. \A t \in Threads : Contents(t)'
    BY DEF IInv, Contents, ItemAt, Slot
  <2>4. \A t, u \in Threads : Apart(t, u)'
    BY DEF IInv, Apart
  <2> QED
    BY <2>1, <2>2, <2>3, <2>4 DEF IInv
<1> QED
  BY <1>3, <1>4 DEF Next

LEMMA Invariant == Spec => []IInv
  BY InitIInv, NextIInv, PTL DEF Spec

(* Every variable keeps its type, and each slot that was taken has its     *)
(* item, for any number of threads and calls.                              *)
THEOREM QueueTypeCorrect == Spec => []TypeOK
<1>1. IInv => TypeOK
  BY DEF IInv
<1> QED
  BY <1>1, Invariant, PTL

(* The ring is never overrun, however old the indices are that the threads *)
(* compare (:69-77, 97-105).                                               *)
THEOREM NeverOverrun == Spec => []IndicesOrdered
<1>1. IInv => IndicesOrdered
  BY DEF IInv, Ring
<1> QED
  BY <1>1, Invariant, PTL

(* A slot that is written is in no other hand (:86, 114).                  *)
THEOREM SlotsAreExclusive == Spec => []SlotsExclusive
<1>1. IInv => SlotsExclusive
  <2> SUFFICES ASSUME IInv, NEW t \in Threads, NEW u \in Threads, t # u,
                      pc[t] = "pushItem", pc[u] \in {"pushItem", "popItem"}
               PROVE  Slot(index[t]) # Slot(index[u])
    BY DEF SlotsExclusive
  <2>1. /\ index[t] \in Nat /\ index[u] \in Nat
        /\ m_dwWriteIndex <= index[t] /\ index[t] < m_dwBackIndex
    BY DEF IInv, TypeOK, Held, Filling
  <2>2. index[t] # index[u] /\ m_dwFrontIndex <= index[u] /\ index[u] < m_dwBackIndex
    <3>1. CASE pc[u] = "pushItem"
      BY <3>1, Numbers DEF IInv, Held, Apart, Filling
    <3>2. CASE pc[u] = "popItem"
      BY <3>2, <2>1, Numbers DEF IInv, Held, Emptying
    <3> QED
      BY <3>1, <3>2
  <2> QED
    BY <2>1, <2>2, InRing, Numbers
<1> QED
  BY <1>1, Invariant, PTL

(* Pop returns the items in the order in which Push took their slots       *)
(* (:86-87, 114-115).                                                      *)
THEOREM ItemsInOrder == Spec => []PoppedInOrder
<1>1. IInv => PoppedInOrder
  BY DEF IInv, Contents, PoppedInOrder
<1> QED
  BY <1>1, Invariant, PTL

(* EC_DATA_FULL and EC_NO_DATA are right at the moment of the second load  *)
(* (:73-75, 101-103).                                                      *)
THEOREM RefusalsAreRight == Spec => RefusedRightly
<1>1. IInv /\ [Next]_vars =>
        [\A t \in Threads :
           /\ PushCheck(t) /\ pc'[t] = "idle" =>
                m_dwBackIndex = m_dwFrontIndex + Capacity
           /\ PopCheck(t) /\ pc'[t] = "idle" => m_dwReadIndex = m_dwWriteIndex]_vars
  BY PushCheckIs, PopCheckIs
<1> QED
  BY <1>1, Invariant, PTL DEF Spec, RefusedRightly
=============================================================================
