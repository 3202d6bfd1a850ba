--------------------- MODULE PciCompletionQueue_proofs ---------------------
(***************************************************************************)
(* The ring of backend_pci.c implements a bounded FIFO, for every number of *)
(* slots, slot size and set of completions.                                 *)
(***************************************************************************)
EXTENDS PciCompletionQueue, TLAPS

-----------------------------------------------------------------------------
(* Arithmetic of the ring                                                   *)

(* Below twice the ring's size, the remainder is one subtraction.           *)
LEMMA Wrap ==
    ASSUME NEW x \in Nat, x < 2 * MAX_COMPLETIONS
    PROVE  x % MAX_COMPLETIONS =
             IF x < MAX_COMPLETIONS THEN x ELSE x - MAX_COMPLETIONS
<1>1. MAX_COMPLETIONS \in Nat /\ MAX_COMPLETIONS > 0
  BY RingAssumption
<1>2. QED
  BY <1>1, SMTT(60)

(* Slots of different places in the queue are different.                    *)
LEMMA Apart ==
    ASSUME NEW h \in Slots, NEW k \in 0..MAX_COMPLETIONS,
           NEW l \in 0..MAX_COMPLETIONS, k < l, l - k < MAX_COMPLETIONS
    PROVE  (h + k) % MAX_COMPLETIONS # (h + l) % MAX_COMPLETIONS
<1>1. MAX_COMPLETIONS \in Nat /\ MAX_COMPLETIONS > 0
  BY RingAssumption
<1>2. /\ h + k \in Nat /\ h + k < 2 * MAX_COMPLETIONS
      /\ h + l \in Nat /\ h + l < 2 * MAX_COMPLETIONS
  BY <1>1 DEF Slots
<1>3. QED
  BY <1>1, <1>2, Wrap DEF Slots

(* After stays within the ring, and is one step of the remainder.           *)
LEMMA AfterNext ==
    ASSUME NEW h \in Slots, NEW k \in 0..MAX_COMPLETIONS - 1
    PROVE  /\ After(h) \in Slots
           /\ After((h + k) % MAX_COMPLETIONS) = (h + k + 1) % MAX_COMPLETIONS
           /\ (After(h) + k) % MAX_COMPLETIONS = (h + k + 1) % MAX_COMPLETIONS
<1>1. MAX_COMPLETIONS \in Nat /\ MAX_COMPLETIONS > 0
  BY RingAssumption
<1>2. h \in Nat /\ h < MAX_COMPLETIONS /\ k \in Nat /\ k < MAX_COMPLETIONS
  BY <1>1 DEF Slots
<1>3. /\ h + 1 < 2 * MAX_COMPLETIONS
      /\ h + k < 2 * MAX_COMPLETIONS
      /\ h + k + 1 < 2 * MAX_COMPLETIONS
  BY <1>1, <1>2
<1>4. After(h) = IF h + 1 < MAX_COMPLETIONS THEN h + 1 ELSE 0
  BY <1>1, <1>2, <1>3, Wrap DEF After
<1>5. (h + k) % MAX_COMPLETIONS =
        IF h + k < MAX_COMPLETIONS THEN h + k ELSE h + k - MAX_COMPLETIONS
  BY <1>1, <1>2, <1>3, Wrap
<1>6. (h + k + 1) % MAX_COMPLETIONS =
        IF h + k + 1 < MAX_COMPLETIONS THEN h + k + 1
                                       ELSE h + k + 1 - MAX_COMPLETIONS
  BY <1>1, <1>2, <1>3, Wrap
<1>7. After(h) \in Slots
  BY <1>1, <1>2, <1>4 DEF Slots
<1>8. After((h + k) % MAX_COMPLETIONS) = (h + k + 1) % MAX_COMPLETIONS
  <2> DEFINE m == (h + k) % MAX_COMPLETIONS
  <2>1. m \in Nat /\ m < MAX_COMPLETIONS
    BY <1>1, <1>2, <1>5
  <2>2. (m + 1) % MAX_COMPLETIONS =
          IF m + 1 < MAX_COMPLETIONS THEN m + 1 ELSE m + 1 - MAX_COMPLETIONS
    BY <1>1, <2>1, Wrap
  <2>3. QED
    BY <1>1, <1>2, <1>5, <1>6, <2>1, <2>2 DEF After
<1>9. (After(h) + k) % MAX_COMPLETIONS = (h + k + 1) % MAX_COMPLETIONS
  <2>1. CASE h + 1 < MAX_COMPLETIONS
    BY <1>2, <1>4, <2>1
  <2>2. CASE h + 1 >= MAX_COMPLETIONS
    <3>1. After(h) = 0 /\ h + k + 1 = MAX_COMPLETIONS + k
      BY <1>1, <1>2, <1>4, <2>2
    <3>2. k % MAX_COMPLETIONS = k
      BY <1>1, <1>2, Wrap
    <3>3. QED
      BY <1>1, <1>2, <1>6, <3>1, <3>2
  <2>3. QED
    BY <1>1, <1>2, <2>1, <2>2
<1>10. QED
  BY <1>7, <1>8, <1>9

-----------------------------------------------------------------------------
(* The ring keeps its order                                                 *)

(* What is copied into a slot is a slot's contents.                         *)
LEMMA FilledType ==
    ASSUME NEW slot \in Slot, NEW t \in Tlp
    PROVE  Filled(slot, t) \in Slot
<1>1. t.length \in 0..DataSize /\ DataSize \in Nat
  BY CompletionAssumption, RingAssumption
<1>2. ASSUME NEW k \in 1..DataSize
      PROVE  (IF t.data # NoData /\ k <= t.length THEN t.data[k]
                                                 ELSE slot.data[k]) \in Byte
  <2>1. slot.data[k] \in Byte
    BY DEF Slot
  <2>2. CASE t.data # NoData /\ k <= t.length
    <3>1. t.data \in [1..t.length -> Byte]
      BY <2>2, CompletionAssumption
    <3>2. k \in 1..t.length
      BY <1>1, <2>2
    <3>3. QED
      BY <2>2, <3>1, <3>2
  <2>3. QED
    BY <2>1, <2>2
<1>3. (t.data # NoData) \in BOOLEAN /\ (t.data # NoData => t.length > 0)
  BY CompletionAssumption
<1>4. QED
  BY <1>1, <1>2, <1>3 DEF Filled, Slot

(* The ring is in order at first.                                           *)
LEMMA RingStarts == RingInit => RingInv
<1> SUFFICES ASSUME RingInit PROVE RingInv
  OBVIOUS
<1>1. MAX_COMPLETIONS \in Nat /\ MAX_COMPLETIONS > 0 /\ DataSize \in Nat
  BY RingAssumption
<1>2. 0 % MAX_COMPLETIONS = 0
  BY <1>1, Wrap
<1>3. completions \in [Slots -> Slot]
  BY <1>1 DEF RingInit, Slot, Byte
<1>4. tail = (head + count) % MAX_COMPLETIONS
  <2>1. head + count = 0 /\ tail = 0
    BY DEF RingInit
  <2>2. QED
    BY <1>2, <2>1
<1>5. head \in Slots /\ tail \in Slots /\ count \in 0..MAX_COMPLETIONS
  BY <1>1 DEF RingInit, Slots
<1>6. QED
  BY <1>3, <1>4, <1>5 DEF RingInv

(* Each call keeps it in order.                                             *)
LEMMA RingKept == RingInv /\ [RingNext]_ringVars => RingInv'
<1> SUFFICES ASSUME RingInv, [RingNext]_ringVars PROVE RingInv'
  OBVIOUS
<1>1. MAX_COMPLETIONS \in Nat /\ MAX_COMPLETIONS > 0
  BY RingAssumption
<1>2. ASSUME NEW t \in Tlp, pci_enqueue_completion(t) PROVE RingInv'
  <2>1. CASE count >= MAX_COMPLETIONS
    BY <1>1, <1>2, <2>1 DEF pci_enqueue_completion, RingInv
  <2>2. CASE count < MAX_COMPLETIONS
    <3>1. /\ completions' = [completions EXCEPT ![tail] = Filled(@, t)]
          /\ tail' = After(tail) /\ count' = count + 1 /\ head' = head
      BY <1>1, <1>2, <2>2 DEF pci_enqueue_completion, RingInv
    <3>2. completions' \in [Slots -> Slot]
      BY <3>1, FilledType DEF RingInv
    <3>3. count \in 0..MAX_COMPLETIONS - 1
      BY <1>1, <2>2 DEF RingInv
    <3>4. tail' = (head + count + 1) % MAX_COMPLETIONS
      <4>1. After((head + count) % MAX_COMPLETIONS)
              = (head + count + 1) % MAX_COMPLETIONS
        BY <3>3, AfterNext DEF RingInv
      <4>2. tail' = After((head + count) % MAX_COMPLETIONS)
        BY <3>1 DEF RingInv
      <4>3. QED
        BY <4>1, <4>2
    <3>5. tail' \in Slots
      <4>1. 0 \in 0..MAX_COMPLETIONS - 1
        BY <1>1
      <4>2. QED
        BY <3>1, <4>1, AfterNext DEF RingInv
    <3>6. count' \in 0..MAX_COMPLETIONS /\ head + count' = head + count + 1
      BY <1>1, <2>2, <3>1 DEF RingInv, Slots
    <3>7. QED
      BY <3>1, <3>2, <3>4, <3>5, <3>6 DEF RingInv
  <2>3. QED
    BY <1>1, <2>1, <2>2 DEF RingInv
<1>3. ASSUME pci_dequeue_completion PROVE RingInv'
  <2>1. CASE UNCHANGED <<completions, head, tail, count>>
    BY <2>1 DEF RingInv
  <2>2. CASE /\ count # 0
             /\ head' = After(head) /\ count' = count - 1
             /\ UNCHANGED <<completions, tail>>
    <3>1. /\ count - 1 \in 0..MAX_COMPLETIONS - 1
          /\ head + (count - 1) + 1 = head + count
      BY <1>1, <2>2 DEF RingInv, Slots
    <3>2. (After(head) + (count - 1)) % MAX_COMPLETIONS
            = (head + (count - 1) + 1) % MAX_COMPLETIONS
      BY <3>1, AfterNext DEF RingInv
    <3>3. After(head) \in Slots
      BY <3>1, AfterNext DEF RingInv
    <3>4. QED
      BY <1>1, <2>2, <3>1, <3>2, <3>3 DEF RingInv
  <2>3. QED
    BY <1>3, <2>1, <2>2 DEF pci_dequeue_completion
<1>4. CASE UNCHANGED ringVars
  BY <1>4 DEF RingInv, ringVars
<1>5. QED
  BY <1>2, <1>3, <1>4 DEF RingNext

(* The slots and indices keep their types, the next free slot is always     *)
(* count places behind the head, and no more packets are held than slots.   *)
THEOREM RingInOrder == RingSpec => []RingInv
BY RingStarts, RingKept, PTL DEF RingSpec

-----------------------------------------------------------------------------
(* Sequences given by their values                                          *)

(* Sequences with the same values are the same; the values of Append and    *)
(* Tail.                                                                    *)
LEMMA ByValues ==
    ASSUME NEW S, NEW n \in Nat, NEW s \in [1..n -> S]
    PROVE  s \in Seq(S) /\ Len(s) = n
OBVIOUS

LEMMA AppendValues ==
    ASSUME NEW S, NEW n \in Nat, NEW s \in [1..n -> S], NEW x \in S,
           NEW r \in [1..n + 1 -> S], r[n + 1] = x,
           \A k \in 1..n : r[k] = s[k]
    PROVE  r = Append(s, x)
<1>1. s \in Seq(S) /\ Len(s) = n /\ r \in Seq(S) /\ Len(r) = n + 1
  BY ByValues
<1>2. /\ Append(s, x) \in Seq(S) /\ Len(Append(s, x)) = n + 1
      /\ Append(s, x)[n + 1] = x
      /\ \A k \in 1..n : Append(s, x)[k] = s[k]
  BY <1>1
<1>3. \A k \in 1..n + 1 : r[k] = Append(s, x)[k]
  BY <1>2
<1>4. QED
  BY <1>1, <1>2, <1>3

LEMMA TailValues ==
    ASSUME NEW S, NEW n \in Nat, n > 0, NEW s \in [1..n -> S],
           NEW r \in [1..n - 1 -> S], \A k \in 1..n - 1 : r[k] = s[k + 1]
    PROVE  s # << >> /\ r = Tail(s) /\ Head(s) = s[1]
<1>1. s \in Seq(S) /\ Len(s) = n /\ r \in Seq(S) /\ Len(r) = n - 1
  BY ByValues
<1>2. s # << >>
  BY <1>1
<1>3. /\ Tail(s) \in Seq(S) /\ Len(Tail(s)) = n - 1
      /\ \A k \in 1..n - 1 : Tail(s)[k] = s[k + 1]
  BY <1>1, <1>2
<1>4. \A k \in 1..n - 1 : r[k] = Tail(s)[k]
  BY <1>3
<1>5. QED
  BY <1>1, <1>2, <1>3, <1>4

-----------------------------------------------------------------------------
(* The ring implements the FIFO                                             *)

(* What a slot holds of a packet is that packet.                            *)
LEMMA InSlotFilled ==
    ASSUME NEW slot \in Slot, NEW t \in Tlp
    PROVE  /\ InSlot(Filled(slot, t)).id = t.id
           /\ InSlot(Filled(slot, t)).length = t.length
           /\ InSlot(Filled(slot, t)).data = t.data
<1>1. t.length \in 0..DataSize /\ DataSize \in Nat
  BY CompletionAssumption, RingAssumption
<1>2. CASE t.data = NoData
  BY <1>2 DEF Filled, InSlot
<1>3. CASE t.data # NoData
  <2>1. t.data \in [1..t.length -> Byte]
    BY <1>3, CompletionAssumption
  <2>2. \A k \in 1..t.length : Filled(slot, t).data[k] = t.data[k]
    BY <1>1, <1>3 DEF Filled
  <2>3. t.data = [k \in 1..t.length |-> Filled(slot, t).data[k]]
    BY <2>1, <2>2
  <2>4. QED
    BY <1>3, <2>3 DEF Filled, InSlot
<1>4. QED
  BY <1>2, <1>3

(* What a slot holds is a packet of the queue.                              *)
LEMMA InSlotPacket ==
    ASSUME NEW slot \in Slot, NEW t \in Tlp
    PROVE  InSlot(Filled(slot, t)) = t
<1>1. /\ InSlot(Filled(slot, t)).id = t.id
      /\ InSlot(Filled(slot, t)).length = t.length
      /\ InSlot(Filled(slot, t)).data = t.data
  BY InSlotFilled
<1>2. InSlot(Filled(slot, t)) = [id |-> InSlot(Filled(slot, t)).id,
                                 length |-> InSlot(Filled(slot, t)).length,
                                 data |-> InSlot(Filled(slot, t)).data]
  BY DEF InSlot
<1>3. t = [id |-> t.id, length |-> t.length, data |-> t.data]
  BY CompletionAssumption
<1>4. QED
  BY <1>1, <1>2, <1>3

(* Every place of the queue is a slot.                                      *)
LEMMA PendingType ==
    ASSUME RingInv
    PROVE  /\ \A k \in 1..count : (head + k - 1) % MAX_COMPLETIONS \in Slots
           /\ Pending \in [1..count -> {InSlot(slot) : slot \in Slot}]
           /\ count \in Nat /\ Len(Pending) = count
<1>1. /\ MAX_COMPLETIONS \in Nat /\ MAX_COMPLETIONS > 0
      /\ head \in Nat /\ head < MAX_COMPLETIONS
      /\ count \in Nat /\ count <= MAX_COMPLETIONS
  BY RingAssumption DEF RingInv, Slots
<1>2. ASSUME NEW k \in 1..count
      PROVE  (head + k - 1) % MAX_COMPLETIONS \in Slots
  <2>1. head + k - 1 \in Nat /\ head + k - 1 < 2 * MAX_COMPLETIONS
    BY <1>1
  <2>2. QED
    BY <1>1, <2>1, Wrap DEF Slots
<1>3. \A k \in 1..count :
        InSlot(completions[(head + k - 1) % MAX_COMPLETIONS])
          \in {InSlot(slot) : slot \in Slot}
  BY <1>2 DEF RingInv
<1>4. Pending \in [1..count -> {InSlot(slot) : slot \in Slot}]
  BY <1>3 DEF Pending
<1>5. QED
  BY <1>1, <1>2, <1>4, ByValues

(* An accepted completion is appended; the slots of the others are not      *)
(* touched.                                                                 *)
LEMMA EnqueueAppends ==
    ASSUME RingInv, RingInv', NEW t \in Tlp, count < MAX_COMPLETIONS,
           completions' = [completions EXCEPT ![tail] = Filled(@, t)],
           count' = count + 1, head' = head
    PROVE  Len(Pending) < MAX_COMPLETIONS /\ Pending' = Append(Pending, t)
<1> DEFINE place(k) == (head + k - 1) % MAX_COMPLETIONS
           S == {InSlot(slot) : slot \in Slot}
<1>1. /\ MAX_COMPLETIONS \in Nat /\ MAX_COMPLETIONS > 0
      /\ head \in Slots /\ tail \in Slots /\ head \in Nat
      /\ count \in Nat /\ completions \in [Slots -> Slot]
  BY RingAssumption DEF RingInv, Slots
<1>2. ASSUME NEW k \in 1..count
      PROVE  completions'[place(k)] = completions[place(k)]
  <2>1. /\ k - 1 \in 0..MAX_COMPLETIONS /\ count \in 0..MAX_COMPLETIONS
        /\ k - 1 < count /\ count - (k - 1) < MAX_COMPLETIONS
        /\ head + (k - 1) = head + k - 1
    BY <1>1
  <2>2. (head + (k - 1)) % MAX_COMPLETIONS # (head + count) % MAX_COMPLETIONS
    BY <1>1, <2>1, Apart
  <2>3. place(k) # tail
    BY <2>1, <2>2 DEF RingInv
  <2>4. place(k) \in Slots
    BY PendingType
  <2>5. QED
    BY <1>1, <2>3, <2>4
<1>3. InSlot(completions'[place(count + 1)]) = t /\ t \in S
  <2>1. place(count + 1) = tail
    <3>1. head + (count + 1) - 1 = head + count
      BY <1>1
    <3>2. QED
      BY <3>1 DEF RingInv
  <2>2. /\ completions'[tail] = Filled(completions[tail], t)
        /\ completions[tail] \in Slot
    BY <1>1
  <2>3. Filled(completions[tail], t) \in Slot
    BY <2>2, FilledType
  <2>4. InSlot(Filled(completions[tail], t)) = t
    BY <2>2, InSlotPacket
  <2>5. QED
    BY <2>1, <2>2, <2>3, <2>4
<1>4. /\ Pending = [k \in 1..count |-> InSlot(completions[place(k)])]
      /\ Pending' = [k \in 1..count + 1 |-> InSlot(completions'[place(k)])]
  BY DEF Pending, InSlot
<1>5. /\ Pending \in [1..count -> S]
      /\ Pending' \in [1..count + 1 -> S]
      /\ Len(Pending) = count
  <2>1. Pending \in [1..count -> S] /\ Len(Pending) = count
    BY PendingType
  <2>2. \A k \in 1..count + 1 : InSlot(completions'[place(k)]) \in S
    <3> SUFFICES ASSUME NEW k \in 1..count + 1
                 PROVE  InSlot(completions'[place(k)]) \in S
      OBVIOUS
    <3>1. CASE k \in 1..count
      <4>1. completions'[place(k)] \in Slot
        BY <1>1, <1>2, <3>1, PendingType
      <4>2. QED
        BY <4>1
    <3>2. CASE k = count + 1
      BY <1>3, <3>2
    <3>3. QED
      BY <1>1, <3>1, <3>2
  <2>3. QED
    BY <1>4, <2>1, <2>2
<1>6. /\ Pending'[count + 1] = t
      /\ \A k \in 1..count : Pending'[k] = Pending[k]
  BY <1>1, <1>2, <1>3, <1>4
<1>7. Pending' = Append(Pending, t)
  BY <1>1, <1>3, <1>5, <1>6, AppendValues
<1>8. QED
  BY <1>5, <1>7

(* A successful dequeue hands out the head and leaves the tail of the queue. *)
LEMMA DequeueTakes ==
    ASSUME RingInv, RingInv', count # 0, head' = After(head),
           count' = count - 1, UNCHANGED <<completions, tail>>
    PROVE  /\ Pending # << >> /\ Pending' = Tail(Pending)
           /\ Fifo!SamePacket(Taken(completions[head]), Head(Pending))
<1> DEFINE place(k) == (head + k - 1) % MAX_COMPLETIONS
           S == {InSlot(slot) : slot \in Slot}
<1>1. /\ MAX_COMPLETIONS \in Nat /\ MAX_COMPLETIONS > 0
      /\ head \in Slots /\ head \in Nat /\ head < MAX_COMPLETIONS
      /\ count \in Nat /\ count > 0 /\ count <= MAX_COMPLETIONS
  BY RingAssumption DEF RingInv, Slots
<1>2. ASSUME NEW k \in 1..count - 1
      PROVE  /\ (head' + k - 1) % MAX_COMPLETIONS = place(k + 1)
             /\ k + 1 \in 1..count
  <2>1. /\ k - 1 \in 0..MAX_COMPLETIONS - 1
        /\ head + (k - 1) + 1 = head + (k + 1) - 1
        /\ k + 1 \in 1..count
    BY <1>1
  <2>2. /\ (After(head) + (k - 1)) % MAX_COMPLETIONS
             = (head + (k - 1) + 1) % MAX_COMPLETIONS
        /\ After(head) \in Slots
    BY <1>1, <2>1, AfterNext
  <2>3. After(head) + (k - 1) = head' + k - 1
    BY <1>1, <2>2 DEF Slots
  <2>4. QED
    BY <2>1, <2>2, <2>3
<1>3. /\ Pending = [k \in 1..count |-> InSlot(completions[place(k)])]
      /\ Pending' = [k \in 1..count - 1 |->
                       InSlot(completions[(head' + k - 1) % MAX_COMPLETIONS])]
  BY DEF Pending, InSlot
<1>4. Pending \in [1..count -> S]
  BY PendingType
<1>5. \A k \in 1..count - 1 : Pending'[k] = Pending[k + 1]
  BY <1>2, <1>3
<1>6. Pending' \in [1..count - 1 -> S]
  BY <1>2, <1>3, <1>4, <1>5
<1>7. Pending # << >> /\ Pending' = Tail(Pending) /\ Head(Pending) = Pending[1]
  BY <1>1, <1>4, <1>5, <1>6, TailValues
<1>8. Pending[1] = InSlot(completions[head])
  <2>1. head + 1 - 1 = head /\ head % MAX_COMPLETIONS = head
    BY <1>1, Wrap
  <2>2. QED
    BY <1>1, <1>3, <2>1
<1>9. Fifo!SamePacket(Taken(completions[head]), InSlot(completions[head]))
  <2> DEFINE slot == completions[head]
  <2>1. slot.length \in Nat /\ (slot.carries => slot.length > 0)
    BY <1>1, RingAssumption DEF RingInv, Slot
  <2>2. CASE slot.length > 0
    BY <2>2 DEF Taken, InSlot, Fifo!SamePacket
  <2>3. CASE slot.length = 0
    BY <2>1, <2>3 DEF Taken, InSlot, Fifo!SamePacket
  <2>4. QED
    BY <2>1, <2>2, <2>3
<1>10. QED
  BY <1>7, <1>8, <1>9
(* The initial ring is the empty queue, and every call is a step of the     *)
(* queue or changes nothing it has.                                         *)
LEMMA FifoStep ==
    ASSUME RingInv, RingInv', [RingNext]_ringVars
    PROVE  [Fifo!Next]_<<Pending, answer>>
<1>1. MAX_COMPLETIONS \in Nat /\ count \in 0..MAX_COMPLETIONS
      /\ Len(Pending) = count
  BY RingAssumption, PendingType DEF RingInv
<1>2. ASSUME UNCHANGED <<completions, head, tail, count>>
      PROVE  Pending' = Pending
  BY <1>2 DEF Pending, InSlot
<1>3. ASSUME NEW t \in Tlp, pci_enqueue_completion(t)
      PROVE  Fifo!Next
  <2>1. CASE /\ count >= MAX_COMPLETIONS
             /\ answer' = [call |-> "put", rc |-> 1]
             /\ UNCHANGED <<completions, head, tail, count>>
    BY <1>1, <1>2, <2>1 DEF Fifo!Next, Fifo!Refuse
  <2>2. CASE /\ count < MAX_COMPLETIONS
             /\ completions' = [completions EXCEPT ![tail] = Filled(@, t)]
             /\ count' = count + 1 /\ head' = head
             /\ answer' = [call |-> "put", rc |-> 0]
    <3>1. Len(Pending) < MAX_COMPLETIONS /\ Pending' = Append(Pending, t)
      BY <2>2, EnqueueAppends
    <3>2. Fifo!Put(t)
      BY <2>2, <3>1 DEF Fifo!Put
    <3>3. QED
      BY <3>2 DEF Fifo!Next
  <2>3. QED
    BY <1>3, <2>1, <2>2 DEF pci_enqueue_completion
<1>4. ASSUME pci_dequeue_completion
      PROVE  Fifo!Next
  <2>1. CASE /\ answer' = [call |-> "take", rc |-> 1]
             /\ UNCHANGED <<completions, head, tail, count>>
    BY <1>2, <2>1 DEF Fifo!Next, Fifo!Fail
  <2>2. CASE /\ count # 0
             /\ answer' = [call |-> "take", rc |-> 0,
                           packet |-> Taken(completions[head])]
             /\ head' = After(head) /\ count' = count - 1
             /\ UNCHANGED <<completions, tail>>
    <3>1. /\ Pending # << >> /\ Pending' = Tail(Pending)
          /\ Fifo!SamePacket(Taken(completions[head]), Head(Pending))
      BY <2>2, DequeueTakes
    <3>2. /\ answer'.packet = Taken(completions[head])
          /\ answer' = [call |-> "take", rc |-> 0, packet |-> answer'.packet]
      BY <2>2
    <3>3. Fifo!SamePacket(answer'.packet, Head(Pending))
      BY <3>1, <3>2
    <3>4. Fifo!Take
      BY <3>1, <3>2, <3>3 DEF Fifo!Take
    <3>5. QED
      BY <3>4 DEF Fifo!Next
  <2>3. QED
    BY <1>4, <2>1, <2>2 DEF pci_dequeue_completion
<1>5. CASE UNCHANGED ringVars
  BY <1>2, <1>5 DEF ringVars
<1>6. QED
  BY <1>3, <1>4, <1>5 DEF RingNext

(* An empty ring is an empty queue.                                         *)
LEMMA FifoInit == RingInit => Fifo!Init
BY DEF RingInit, Fifo!Init, Pending

(* The ring, through wrap-around, refusals and failed allocations, hands    *)
(* every accepted completion out once, in order and with its own payload.   *)
THEOREM RingImplementsFifo == RingSpec => ImplementsFifo
<1>1. RingInv /\ RingInv' /\ [RingNext]_ringVars => [Fifo!Next]_<<Pending, answer>>
  BY FifoStep
<1>2. QED
  BY <1>1, FifoInit, RingInOrder, PTL DEF RingSpec, ImplementsFifo, Fifo!Spec
=============================================================================
