------------------------- MODULE PciCompletionQueue -------------------------
(***************************************************************************)
(* The completion ring of backend_pci.c.  The two functions are static and  *)
(* nothing in the file calls them yet, so that any sequence of calls is     *)
(* possible.  A completion is [id, length, data]: id stands for the header  *)
(* fields, data for the bytes behind mem.data, as many as length, or        *)
(* NoData for a null pointer.                                               *)
(***************************************************************************)
EXTENDS Naturals, Sequences

CONSTANTS
    Tlp,               \* completions: [id, length, data]
    NoData,            \* the null mem.data pointer
    MAX_COMPLETIONS,   \* slots of the ring (16)
    DataSize           \* sizeof data[] in a slot (256)

Byte == 0..255

(* backend_pci.c:42 does not compare the length with the slot's data[]: a   *)
(* longer one would write beyond it.  Nothing here holds of such a caller.  *)
ASSUME CompletionAssumption ==
    \A t \in Tlp : /\ t = [id |-> t.id, length |-> t.length, data |-> t.data]
                   /\ t.length \in 0..DataSize
                   /\ \/ t.data = NoData
                      \/ t.length > 0 /\ t.data \in [1..t.length -> Byte]

ASSUME RingAssumption == /\ MAX_COMPLETIONS \in Nat \ {0}
                         /\ DataSize \in Nat

VARIABLES
    completions,       \* the slots: [id, length, carries, data]
    head, tail, count,
    answer             \* what the latest call returned, and the packet
                       \* a successful pci_dequeue_completion handed out

ringVars == <<completions, head, tail, count, answer>>

Slots == 0..(MAX_COMPLETIONS - 1)

(* pci_state is zeroed by the loader.                                       *)
RingInit == /\ completions = [s \in Slots |->
                   [id |-> 0, length |-> 0, carries |-> FALSE,
                    data |-> [k \in 1..DataSize |-> 0]]]
            /\ head = 0 /\ tail = 0 /\ count = 0
            /\ answer = [call |-> "none"]

(* memcpy of the header, and of the payload if there is one; the slot's     *)
(* other bytes stay what they were.                                         *)
Filled(slot, t) ==
    [id |-> t.id, length |-> t.length, carries |-> t.data # NoData,
     data |-> [k \in 1..DataSize |->
                 IF t.data # NoData /\ k <= t.length THEN t.data[k]
                                                     ELSE slot.data[k]]]

(* Mutant: the index wraps one slot late.                                   *)
AfterMutant(s) == (s + 1) % (MAX_COMPLETIONS + 1)

After(s) == (s + 1) % MAX_COMPLETIONS

(* Mutant: the test for a full ring lets one more in.                       *)
EnqueueMutant(t) ==
    /\ count <= MAX_COMPLETIONS
    /\ completions' = [completions EXCEPT ![tail] = Filled(@, t)]
    /\ tail' = After(tail)
    /\ count' = count + 1
    /\ answer' = [call |-> "put", rc |-> 0]
    /\ UNCHANGED head

pci_enqueue_completion(t) ==
    \/ /\ count >= MAX_COMPLETIONS
       /\ answer' = [call |-> "put", rc |-> 1]
       /\ UNCHANGED <<completions, head, tail, count>>
    \/ /\ count < MAX_COMPLETIONS
       /\ completions' = [completions EXCEPT ![tail] = Filled(@, t)]
       /\ tail' = After(tail)
       /\ count' = count + 1
       /\ answer' = [call |-> "put", rc |-> 0]
       /\ UNCHANGED head

(* The packet handed out: whenever the length is not zero, a copy of that   *)
(* many bytes of the slot, also when the packet came without data.          *)
Taken(slot) == [id |-> slot.id, length |-> slot.length,
                data |-> IF slot.length > 0
                           THEN [k \in 1..slot.length |-> slot.data[k]]
                           ELSE NoData]

(* It fails on an empty ring, and, before the ring is touched, when malloc  *)
(* does.                                                                    *)
pci_dequeue_completion ==
    \/ /\ count = 0 \/ completions[head].length > 0
       /\ answer' = [call |-> "take", rc |-> 1]
       /\ UNCHANGED <<completions, head, tail, count>>
    \/ /\ count # 0
       /\ answer' = [call |-> "take", rc |-> 0,
                     packet |-> Taken(completions[head])]
       /\ head' = After(head)
       /\ count' = count - 1
       /\ UNCHANGED <<completions, tail>>

RingNext == (\E t \in Tlp : pci_enqueue_completion(t)) \/ pci_dequeue_completion

RingSpec == RingInit /\ [][RingNext]_ringVars

-----------------------------------------------------------------------------
(* Properties                                                               *)

Slot == {slot \in [id : {t.id : t \in Tlp} \cup {0}, length : 0..DataSize,
                   carries : BOOLEAN, data : [1..DataSize -> Byte]] :
           slot.carries => slot.length > 0}

(* The ring is in order: indices within it, no more packets than slots, and *)
(* the next free slot exactly count behind the head, so that full and empty *)
(* are told apart by the count that two functions keep.                     *)
RingInv ==
    /\ completions \in [Slots -> Slot]
    /\ head \in Slots /\ tail \in Slots
    /\ count \in 0..MAX_COMPLETIONS
    /\ tail = (head + count) % MAX_COMPLETIONS

(* The packets in the ring, oldest first.                                   *)
InSlot(slot) == [id |-> slot.id, length |-> slot.length,
                 data |-> IF slot.carries
                            THEN [k \in 1..slot.length |-> slot.data[k]]
                            ELSE NoData]
Pending == [k \in 1..count |->
              InSlot(completions[(head + k - 1) % MAX_COMPLETIONS])]

(* Through wrap-around, refusals and failed allocations the ring behaves as *)
(* a bounded FIFO: every accepted completion comes out once, in order, with *)
(* its own payload, and a failed dequeue loses nothing.                     *)
Fifo == INSTANCE BoundedFifo WITH Packet <- Tlp, Capacity <- MAX_COMPLETIONS,
                                  queue <- Pending
ImplementsFifo == Fifo!Spec
=============================================================================
