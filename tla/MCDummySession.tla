--------------------------- MODULE MCDummySession ---------------------------
(* Instance of DummySession for TLC.                                        *)
EXTENDS DummySession

DummyTlps == {Generated(n) : n \in 0..(Limit - 1)}

MemReads  == PCIE_MATCH_TYPE(MEM_READ)
MemWrites == PCIE_MATCH_TYPE(MEM_WRITE)
DummyFilters == {MemReads, MemWrites}
=============================================================================
