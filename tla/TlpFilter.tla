----------------------------- MODULE TlpFilter -----------------------------
(***************************************************************************)
(* TLP type codes and the sniffer filter of libpcapcie (tlp.h, filter.h,   *)
(* filter.c).  Everything here is a constant-level operator.               *)
(***************************************************************************)
EXTENDS Naturals

(* pcie_tlp_type_t *)
MEM_READ  == 0
MEM_WRITE == 1
CFG_READ  == 4
CFG_WRITE == 5
CPL       == 10
UNKNOWN   == 255

TlpType == {MEM_READ, MEM_WRITE, CFG_READ, CFG_WRITE, CPL, UNKNOWN}

(* Bit k of x, and the bitwise AND of two numbers whose common bits lie in  *)
(* the low byte.  Type codes are at most 0xFF, so the upper 24 bits of a    *)
(* mask never select anything.                                              *)
Bit(x, k) == (x \div 2^k) % 2

LowByteAnd(x, y) ==
    LET Both(k) == Bit(x, k) * Bit(y, k) * 2^k
    IN  Both(0) + Both(1) + Both(2) + Both(3)
        + Both(4) + Both(5) + Both(6) + Both(7)

(* A filter selects the TLPs whose masked type equals its value.            *)
pcie_filter_match(f, t) == LowByteAnd(t.type, f.mask) = f.value

(* The filter that selects one type exactly.                                *)
PCIE_MATCH_TYPE(type) == [mask |-> 255, value |-> type]
=============================================================================
