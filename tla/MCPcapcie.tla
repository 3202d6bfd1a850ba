----------------------------- MODULE MCPcapcie -----------------------------
(* Instances of Pcapcie for TLC.                                            *)
EXTENDS Pcapcie

(* A write whose payload just exceeds a record (PayloadSize = 2), a short   *)
(* write, and a read that announces a length but carries nothing.           *)
LongWrite  == [type |-> MEM_WRITE, length |-> 3, addr |-> 1,
               data |-> <<17, 18, 19>>]
ShortWrite == [type |-> MEM_WRITE, length |-> 1, addr |-> 2,
               data |-> <<33, 34>>]
Read       == [type |-> MEM_READ, length |-> 2, addr |-> 3, data |-> NoData]
Config     == [type |-> CFG_WRITE, length |-> 1, addr |-> 0, data |-> <<49>>]

TraceTlps == {LongWrite, ShortWrite, Read}
LoopTlps  == {Read, Config}

(* One type exactly, and every type with bit 2 clear.                       *)
ReadFilter == PCIE_MATCH_TYPE(MEM_READ)
AnyFilter  == [mask |-> 0, value |-> 0]
LoopFilters == {ReadFilter, AnyFilter}
=============================================================================
