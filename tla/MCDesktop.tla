------------------------------ MODULE MCDesktop ------------------------------
(* Instance of Desktop for TLC.                                             *)
EXTENDS Desktop

Types == INSTANCE TlpFilter

Parts == {"runner", "live", "packet", "file"}

(* A trace line that, cut short, reads as the other one; lines of each run. *)
Lines == {"a", "b"}
Cut   == [t \in Lines |-> "b"]
LinesOfRun == <<2, 1, 0>>

SomeRegisters == {<<1, 2, 3, 4>>, <<0, 0, 0, 5>>}

FromFile == {[origin |-> "file", dir |-> "TX", type |-> "MemWr", found |-> TRUE,
              value |-> <<1>>],
             [origin |-> "file", dir |-> "RX", type |-> "CfgRd", found |-> FALSE,
              value |-> << >>],
             [origin |-> "file", dir |-> "RX", type |-> "2", found |-> TRUE,
              value |-> <<1, 2, 3, 4>>]}

FromTrace == [origin : {"live"}, dir : {"RX"}, type : {"CfgRd"}, found : BOOLEAN,
              value : {<<8, 0, 8, 6>>, <<1, 2, 3, 4, 5, 6, 7, 8>>}]

SomeRows == FromFile \cup FromTrace

SomeRecords == {[direction |-> "TX", type |-> Types!CFG_WRITE, payload |-> <<1, 0, 2>>],
                [direction |-> "RX", type |-> Types!MEM_READ, payload |-> << >>],
                [direction |-> "RX", type |-> Types!CPL, payload |-> <<0, 1>>]}

SomeLive == {[dir |-> "TX", type |-> "CfgWr", ids |-> "bdf", payload |-> <<3>>],
             [dir |-> "RX", type |-> "CfgRd", ids |-> "bdf", payload |-> <<4>>]}
=============================================================================
