---------------------------- MODULE BoundedFifo ----------------------------
(***************************************************************************)
(* What a bounded queue of packets promises: what was accepted comes out    *)
(* once, in order and unaltered; only a full queue refuses a packet; a      *)
(* request for one may fail, and then takes nothing.                        *)
(*                                                                         *)
(* Abstract: no definition stands for code.  A packet is [id, length,       *)
(* data]; "answer" is what the latest call returned.                        *)
(***************************************************************************)
EXTENDS Naturals, Sequences

CONSTANTS Packet, Capacity, NoData
VARIABLES queue, answer

(* A packet that carries data keeps it; of one that only announces a length *)
(* nothing more than the announcement is promised.                          *)
SamePacket(got, put) == /\ got.id = put.id
                        /\ got.length = put.length
                        /\ put.data # NoData => got.data = put.data

Init == queue = << >> /\ answer = [call |-> "none"]

Put(x) == /\ Len(queue) < Capacity
          /\ queue' = Append(queue, x)
          /\ answer' = [call |-> "put", rc |-> 0]

Refuse == /\ Len(queue) = Capacity
          /\ queue' = queue
          /\ answer' = [call |-> "put", rc |-> 1]

Take == /\ queue # << >>
        /\ queue' = Tail(queue)
        /\ answer' = [call |-> "take", rc |-> 0, packet |-> answer'.packet]
        /\ SamePacket(answer'.packet, Head(queue))

Fail == /\ queue' = queue
        /\ answer' = [call |-> "take", rc |-> 1]

Next == (\E x \in Packet : Put(x)) \/ Refuse \/ Take \/ Fail

Spec == Init /\ [][Next]_<<queue, answer>>
=============================================================================
