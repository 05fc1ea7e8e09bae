---------------------------- MODULE CircularQueue ----------------------------
(***************************************************************************)
(* core::CCircularQueue (cppcore/200_Common/CircularQueue.h): a bounded    *)
(* queue without locks for any number of threads.  Push takes a slot by    *)
(* moving the back index, fills it, and publishes it by moving the write   *)
(* index when all slots before it are published; Pop does the same with    *)
(* the read and the front index.                                           *)
(*                                                                         *)
(* A step is one access to a member that other threads see, in the order   *)
(* of the program (InterlockedCompareExchange_ is a barrier, and a load    *)
(* is not moved before one that precedes it).                              *)
(*                                                                         *)
(* The indices of the code are DWORDs that wrap.  Here they count on, and  *)
(* the code sees them modulo Modulus, as Same, Distance and Slot do.       *)
(***************************************************************************)
EXTENDS Integers, Sequences

CONSTANTS
  Threads,       \* the threads that push and pop
  Capacity,      \* m_dwMaxCapacity: a power of two, at least 16 in the code
  Modulus,       \* the number of values of a DWORD: 2^32 in the code
  Seed,          \* dwSeedIndex: where the indices start
  MaxItems,      \* bound: calls of Push in a behaviour
  MaxPops        \* bound: calls of Pop

ASSUME QueueAssumption ==
  /\ Capacity \in Nat \ {0} /\ Modulus \in Nat \ {0} /\ Capacity < Modulus
  /\ \E k \in 1 .. Modulus : Modulus = Capacity * k
  /\ Seed \in Nat /\ MaxItems \in Nat /\ MaxPops \in Nat

VARIABLES
  m_vecItems,
  m_dwFrontIndex, m_dwBackIndex, m_dwReadIndex, m_dwWriteIndex,
  \* the threads: where each stands, newItem or outItem, and the index that
  \* was loaded or taken
  pc, item, index,
  \* histories: calls begun, and the items in the order their slots were taken
  pushes, pops, order

indices == <<m_dwFrontIndex, m_dwBackIndex, m_dwReadIndex, m_dwWriteIndex>>
vars == <<m_vecItems, indices, pc, item, index, pushes, pops, order>>

Items == 1 .. MaxItems
NoItem == 0            \* T()

(* Two indices are the same DWORD; their unsigned difference; the slot of  *)
(* an index (& m_dwMask).                                                  *)
Same(i, j) == i % Modulus = j % Modulus
Distance(i, j) == (i - j) % Modulus
Slot(i) == (i % Modulus) % Capacity

Init ==
  /\ m_vecItems = [s \in 0 .. Capacity - 1 |-> NoItem]
  /\ m_dwFrontIndex = Seed /\ m_dwBackIndex = Seed
  /\ m_dwReadIndex = Seed /\ m_dwWriteIndex = Seed
  /\ pc = [t \in Threads |-> "idle"]
  /\ item = [t \in Threads |-> NoItem]
  /\ index = [t \in Threads |-> Seed]
  /\ pushes = 0 /\ pops = 0 /\ order = <<>>

(* One turn of a loop that compares and exchanges is not outlasted by 2^32 *)
(* operations of other threads: an index a thread has loaded and one that  *)
(* is the same DWORD are the same.                                         *)
NotLapped(t, m_dwIndex) == m_dwIndex - index[t] < Modulus - Capacity

Step(t, from, to) == pc[t] = from /\ pc' = [pc EXCEPT ![t] = to]

Load(t, m_dwIndex) == index' = [index EXCEPT ![t] = m_dwIndex]

(***************************************************************************)
(* Push.                                                                   *)
(***************************************************************************)
Push(t) ==
  /\ Step(t, "idle", "pushLoad")
  /\ pushes < MaxItems
  /\ pushes' = pushes + 1
  /\ item' = [item EXCEPT ![t] = pushes + 1]
  /\ UNCHANGED <<m_vecItems, indices, index, pops, order>>

PushLoadBack(t) ==
  /\ Step(t, "pushLoad", "pushCheck")
  /\ Load(t, m_dwBackIndex)
  /\ UNCHANGED <<m_vecItems, indices, item, pushes, pops, order>>

(* Mutants: one item too many is let in; the queue is full too early.      *)
PushCheckLate(t) ==
  /\ Step(t, "pushCheck",
          IF Distance(index[t], m_dwFrontIndex) = Capacity + 1
            THEN "idle" ELSE "pushExchange")
  /\ NotLapped(t, m_dwBackIndex)
  /\ UNCHANGED <<m_vecItems, indices, item, index, pushes, pops, order>>

PushCheckEarly(t) ==
  /\ Step(t, "pushCheck",
          IF Distance(index[t], m_dwFrontIndex) >= Capacity - 1
            THEN "idle" ELSE "pushExchange")
  /\ NotLapped(t, m_dwBackIndex)
  /\ UNCHANGED <<m_vecItems, indices, item, index, pushes, pops, order>>

(* The front index is loaded after the back index; EC_DATA_FULL.           *)
PushCheck(t) ==
  /\ Step(t, "pushCheck",
          IF Distance(index[t], m_dwFrontIndex) = Capacity
            THEN "idle" ELSE "pushExchange")
  /\ NotLapped(t, m_dwBackIndex)
  /\ UNCHANGED <<m_vecItems, indices, item, index, pushes, pops, order>>

(* Mutant: the slot is taken without comparing. *)
PushExchangeAnyway(t) ==
  /\ Step(t, "pushExchange", "pushItem")
  /\ m_dwBackIndex' = index[t] + 1
  /\ order' = Append(order, item[t])
  /\ UNCHANGED <<m_vecItems, m_dwFrontIndex, m_dwReadIndex, m_dwWriteIndex, item,
                 index, pushes, pops>>

PushExchange(t) ==
  /\ NotLapped(t, m_dwBackIndex)
  /\ \/ /\ Same(m_dwBackIndex, index[t])
        /\ Step(t, "pushExchange", "pushItem")
        /\ m_dwBackIndex' = m_dwBackIndex + 1
        /\ order' = Append(order, item[t])
     \/ /\ ~Same(m_dwBackIndex, index[t])
        /\ Step(t, "pushExchange", "pushLoad")
        /\ UNCHANGED <<m_dwBackIndex, order>>
  /\ UNCHANGED <<m_vecItems, m_dwFrontIndex, m_dwReadIndex, m_dwWriteIndex, item,
                 index, pushes, pops>>

PushItem(t) ==
  /\ Step(t, "pushItem", "pushWrite")
  /\ m_vecItems' = [m_vecItems EXCEPT ![Slot(index[t])] = item[t]]
  /\ UNCHANGED <<indices, item, index, pushes, pops, order>>

(* Mutant: the slot is published before those that precede it. *)
PushWriteUnordered(t) ==
  /\ Step(t, "pushWrite", "idle")
  /\ m_dwWriteIndex' = m_dwWriteIndex + 1
  /\ UNCHANGED <<m_vecItems, m_dwFrontIndex, m_dwBackIndex, m_dwReadIndex, item,
                 index, pushes, pops, order>>

(* The loop goes on until the slots before this one are published.         *)
PushWrite(t) ==
  /\ Step(t, "pushWrite", "idle")
  /\ Same(m_dwWriteIndex, index[t])
  /\ m_dwWriteIndex' = m_dwWriteIndex + 1
  /\ UNCHANGED <<m_vecItems, m_dwFrontIndex, m_dwBackIndex, m_dwReadIndex, item,
                 index, pushes, pops, order>>

(***************************************************************************)
(* Pop.                                                                    *)
(***************************************************************************)
Pop(t) ==
  /\ Step(t, "idle", "popLoad")
  /\ pops < MaxPops
  /\ pops' = pops + 1
  /\ UNCHANGED <<m_vecItems, indices, item, index, pushes, order>>

PopLoadRead(t) ==
  /\ Step(t, "popLoad", "popCheck")
  /\ Load(t, m_dwReadIndex)
  /\ UNCHANGED <<m_vecItems, indices, item, pushes, pops, order>>

(* Mutant: a slot that is taken counts as published. *)
PopCheckBack(t) ==
  /\ Step(t, "popCheck",
          IF Distance(m_dwBackIndex, index[t]) = 0 THEN "idle" ELSE "popExchange")
  /\ NotLapped(t, m_dwReadIndex)
  /\ UNCHANGED <<m_vecItems, indices, item, index, pushes, pops, order>>

(* The write index is loaded; EC_NO_DATA.                                  *)
PopCheck(t) ==
  /\ Step(t, "popCheck",
          IF Distance(m_dwWriteIndex, index[t]) = 0 THEN "idle" ELSE "popExchange")
  /\ NotLapped(t, m_dwReadIndex)
  /\ UNCHANGED <<m_vecItems, indices, item, index, pushes, pops, order>>

PopExchange(t) ==
  /\ NotLapped(t, m_dwReadIndex)
  /\ \/ /\ Same(m_dwReadIndex, index[t])
        /\ Step(t, "popExchange", "popItem")
        /\ m_dwReadIndex' = m_dwReadIndex + 1
     \/ /\ ~Same(m_dwReadIndex, index[t])
        /\ Step(t, "popExchange", "popLoad")
        /\ UNCHANGED m_dwReadIndex
  /\ UNCHANGED <<m_vecItems, m_dwFrontIndex, m_dwBackIndex, m_dwWriteIndex, item,
                 index, pushes, pops, order>>

PopItem(t) ==
  /\ Step(t, "popItem", "popFront")
  /\ item' = [item EXCEPT ![t] = m_vecItems[Slot(index[t])]]
  /\ UNCHANGED <<m_vecItems, indices, index, pushes, pops, order>>

(* Mutant: the slot is not given back. *)
PopFrontKept(t) ==
  /\ Step(t, "popFront", "idle")
  /\ Same(m_dwFrontIndex, index[t])
  /\ UNCHANGED <<m_vecItems, indices, item, index, pushes, pops, order>>

(* The loop goes on until the slots before this one are given back.        *)
PopFront(t) ==
  /\ Step(t, "popFront", "idle")
  /\ Same(m_dwFrontIndex, index[t])
  /\ m_dwFrontIndex' = m_dwFrontIndex + 1
  /\ UNCHANGED <<m_vecItems, m_dwBackIndex, m_dwReadIndex, m_dwWriteIndex, item,
                 index, pushes, pops, order>>

-----------------------------------------------------------------------------
Running(t) ==
  \/ PushLoadBack(t) \/ PushCheck(t) \/ PushExchange(t) \/ PushItem(t)
  \/ PushWrite(t)
  \/ PopLoadRead(t) \/ PopCheck(t) \/ PopExchange(t) \/ PopItem(t) \/ PopFront(t)

Next == \E t \in Threads : Push(t) \/ Pop(t) \/ Running(t)

Spec == Init /\ [][Next]_vars

(* A thread that is in a call runs. *)
FairSpec == Spec /\ \A t \in Threads : WF_vars(Running(t))

-----------------------------------------------------------------------------
PushLabels == {"pushLoad", "pushCheck", "pushExchange", "pushItem", "pushWrite"}
PopLabels == {"popLoad", "popCheck", "popExchange", "popItem", "popFront"}

(* The item whose slot was taken at an index. *)
ItemAt(i) == order[i - Seed + 1]

(* The type of every variable; each slot that was taken has its item.      *)
TypeOK ==
  /\ m_vecItems \in [0 .. Capacity - 1 -> Items \cup {NoItem}]
  /\ m_dwFrontIndex \in Nat /\ m_dwBackIndex \in Nat
  /\ m_dwReadIndex \in Nat /\ m_dwWriteIndex \in Nat
  /\ pc \in [Threads -> PushLabels \cup PopLabels \cup {"idle"}]
  /\ item \in [Threads -> Items \cup {NoItem}]
  /\ index \in [Threads -> Nat]
  /\ pushes \in 0 .. MaxItems /\ pops \in 0 .. MaxPops
  /\ order \in Seq(Items)
  /\ m_dwBackIndex = Seed + Len(order)

(* The four indices follow each other around the ring, and never by more   *)
(* than its capacity, whatever the threads have loaded (:69-77, 97-105).   *)
IndicesOrdered ==
  /\ m_dwFrontIndex <= m_dwReadIndex
  /\ m_dwReadIndex <= m_dwWriteIndex
  /\ m_dwWriteIndex <= m_dwBackIndex
  /\ m_dwBackIndex <= m_dwFrontIndex + Capacity

(* No two threads are at the same slot, one of them writing (:86, 114).    *)
SlotsExclusive ==
  \A t, u \in Threads :
    t # u /\ pc[t] = "pushItem" /\ pc[u] \in {"pushItem", "popItem"} =>
      Slot(index[t]) # Slot(index[u])

(* Pop returns the items in the order in which their slots were taken,     *)
(* each once and as it was pushed (:86-87, 114-115).                       *)
PoppedInOrder ==
  \A t \in Threads : pc[t] = "popFront" => item[t] = ItemAt(index[t])

(* EC_DATA_FULL is returned only when every slot is taken, and EC_NO_DATA  *)
(* only when no item is published, at the moment of the second load,       *)
(* however old the first one is (:73-75, 101-103).                         *)
RefusedRightly ==
  [][\A t \in Threads :
       /\ PushCheck(t) /\ pc'[t] = "idle" =>
            m_dwBackIndex = m_dwFrontIndex + Capacity
       /\ PopCheck(t) /\ pc'[t] = "idle" => m_dwReadIndex = m_dwWriteIndex]_vars

(* A thread that has its slot gets through, although it waits for all that *)
(* were before it (:87, 115).                                              *)
SlotsAreGivenBack ==
  \A t \in Threads :
    pc[t] \in {"pushItem", "pushWrite", "popItem", "popFront"} ~> pc[t] = "idle"
=============================================================================
