--------------------------- MODULE MCArmdsBridge ---------------------------
(* Instances of ArmdsBridge for TLC.                                        *)
EXTENDS ArmdsBridge

ConfigRead  == [length |-> 0, data |-> FALSE]   \* pcie_tlp_cfg_read
ConfigWrite == [length |-> 1, data |-> TRUE]    \* pcie_tlp_cfg_write
MemRead     == [length |-> 1, data |-> FALSE]   \* pcie_tlp_decode, no payload

AllTlps == {ConfigRead, ConfigWrite, MemRead}
=============================================================================
