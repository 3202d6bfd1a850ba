----------------------------- MODULE MCBackends -----------------------------
(* Instance of Backends for TLC.                                            *)
EXTENDS Backends

Types == INSTANCE TlpFilter

Parts == {"ring", "xgig", "fpga", "driver", "target", "access", "pci", "dummy"}

(* Completions as long as a slot holds, shorter, announced only, and empty. *)
Long      == [id |-> 1, length |-> 2, data |-> <<17, 18>>]
Short     == [id |-> 2, length |-> 1, data |-> <<33>>]
Announced == [id |-> 3, length |-> 1, data |-> NoData]
Empty     == [id |-> 4, length |-> 0, data |-> NoData]

Completions == {Long, Short, Announced, Empty}

(* Configuration accesses: writes within and across the end of the space,   *)
(* one without a payload; reads with a length and a buffer, without either, *)
(* and too long; and no configuration access at all.                        *)
Tlps == {[type |-> Types!CFG_WRITE, length |-> 3, addr |-> 0, data |-> <<1, 0, 1>>],
         [type |-> Types!CFG_WRITE, length |-> 2, addr |-> 3, data |-> <<1, 1>>],
         [type |-> Types!CFG_WRITE, length |-> 2, addr |-> 0, data |-> NoData],
         [type |-> Types!CFG_READ, length |-> 0, addr |-> 1, data |-> NoData],
         [type |-> Types!CFG_READ, length |-> 3, addr |-> 1, data |-> <<0, 0, 0>>],
         [type |-> Types!CFG_READ, length |-> 4, addr |-> 0, data |-> <<0, 0, 0, 0>>],
         [type |-> Types!MEM_READ, length |-> 1, addr |-> 0, data |-> NoData]}

Places == 1..3
Codes  == {0, 5}

SomeLinks   == [gen : {UNKNOWN, 5, 8}, width : {1, 8, 16}]
SomeTargets == [gen : {UNKNOWN, 5, 8}, width : {0, 1, 16, 257}]

SomeSpeeds == {NoNumber, 3, 9}
SomeWidths == {NoNumber, 256}
SomeNames  == {[speed |-> 5, width |-> 1], [speed |-> 8, width |-> 16],
               [speed |-> 9, width |-> 4]}
SomeDurations == {NoNumber, 0, 7}
=============================================================================
