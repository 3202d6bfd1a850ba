------------------------------ MODULE Pcapcie ------------------------------
(***************************************************************************)
(* One context of libpcapcie (src/src/pcapcie.c): its life from pcie_open  *)
(* to pcie_close, the trace buffer behind pcie_send, pcie_recv and         *)
(* pcie_trace_append, the statistics, the sniffer table and the receive    *)
(* loop that calls the sniffers back.                                      *)
(*                                                                         *)
(* The library is single-threaded: a call is one step, except pcie_loop,   *)
(* which hands control to application callbacks in the middle.  A callback *)
(* may call every function of the library on the same context, other than  *)
(* pcie_close and a nested pcie_loop.  The backend is whatever             *)
(* pcie_backend_ops_t allows: send and recv succeed or fail at will.       *)
(*                                                                         *)
(* "History:" marks variables the code does not have.                      *)
(***************************************************************************)
EXTENDS Naturals, Sequences, TlpFilter

CONSTANTS
    Tlp,               \* TLPs: [type, length, addr, data]
    NoData,            \* the null mem.data pointer
    Filters,           \* filters that applications register
    PayloadSize,       \* sizeof payload[] in a trace record (256)
    InitialCapacity,   \* records allocated at first (16)
    SnifferSlots,      \* entries of the sniffers[] array (8)
    AddrMax,           \* UINT64_MAX
    MaxRequests,       \* bound: record requests per context
    MaxSent,           \* bound: pcie_send calls per context
    MaxReceived,       \* bound: TLPs received per context
    MaxRegistrations   \* bound: pcie_sniff calls per context

Byte == 0..255

ASSUME TlpAssumption ==
    \A t \in Tlp :
        /\ t.type \in TlpType
        /\ t.length \in Nat
        /\ t.addr \in 0..AddrMax
        /\ \/ t.data = NoData
           \/ t.data \in Seq(Byte) /\ t.length <= Len(t.data)

ASSUME SizeAssumption ==
    /\ PayloadSize \in Nat
    /\ InitialCapacity \in Nat \ {0}
    /\ SnifferSlots \in Nat
    /\ AddrMax \in Nat

VARIABLES
    open,              \* the application holds a context
    trace_records,     \* the record array; its domain is 1..trace_capacity
    trace_count,
    trace_capacity,
    stats,             \* [sent, received]
    sniffers,          \* registered filters; sniffer_count is its length
    rx_addr_min,
    rx_addr_max,
    loop,              \* where pcie_loop is: "out", "recv", "scan", "callback"
    i,                 \* the loop's index into sniffers
    high,              \* History: greatest trace_count since pcie_open
    req,               \* History: latest call that asked for a trace record
    seen,              \* History: TLPs pcie_loop received; the last one is
                       \* the loop's local t
    since,             \* History: per sniffer, packets it came too late for
    calls              \* History: callbacks made, as <<packet, sniffer>>

traceVars == <<trace_records, trace_count, trace_capacity, high, req>>
loopVars  == <<loop, i, seen, calls>>
regVars   == <<sniffers, since>>
rxAddr    == <<rx_addr_min, rx_addr_max>>
vars == <<open, traceVars, stats, regVars, rxAddr, loopVars>>

-----------------------------------------------------------------------------
(* Trace records                                                            *)

Direction == {"TX", "RX"}

Payload == [1..PayloadSize -> Byte]

Record == [direction : Direction, type : TlpType, length : Nat,
           addr : 0..AddrMax, payload : Payload]

(* Array slots that realloc returned and nobody has written.                *)
Junk == [direction |-> "RX", type |-> UNKNOWN, length |-> 0, addr |-> 0,
         payload |-> [k \in 1..PayloadSize |-> 165]]

(* Mutant: no memset, as if a slot were always new.                         *)
ZeroedMutant(entry) == entry

(* memset(entry, 0): only the payload can show through the later writes.    *)
Zeroed(entry) == [entry EXCEPT !.payload = [k \in 1..PayloadSize |-> 0]]

(* The fields are assigned; of the payload, the bytes the TLP carries, as   *)
(* many as fit, overwrite what is there.                                    *)
Fill(entry, d, t) ==
    [direction |-> d, type |-> t.type, length |-> t.length, addr |-> t.addr,
     payload |-> [k \in 1..PayloadSize |->
                    IF t.data # NoData /\ k <= t.length
                      THEN t.data[k] ELSE entry.payload[k]]]

WriteEntry(entry, d, t) == Fill(Zeroed(entry), d, t)

Grown == IF trace_capacity = 0 THEN InitialCapacity ELSE 2 * trace_capacity

(* Mutant: the capacity is doubled and the array stays.                     *)
EnlargedMutant == trace_records

(* realloc: the old contents, then junk.                                    *)
Enlarged == [k \in 1..Grown |-> IF k <= trace_capacity THEN trace_records[k]
                                                       ELSE Junk]

Store(mem, d, t) ==
    /\ trace_count' = trace_count + 1
    /\ trace_records' =
         [mem EXCEPT ![trace_count + 1] = WriteEntry(@, d, t)]
    /\ high' = IF trace_count = high THEN high + 1 ELSE high

(* Mutant: the buffer grows one record before it is full.                   *)
TraceRecordMutant(d, t) ==
    \/ /\ trace_count + 1 < trace_capacity
       /\ Store(trace_records, d, t)
       /\ UNCHANGED trace_capacity
    \/ /\ trace_count + 1 >= trace_capacity
       /\ trace_capacity' = Grown
       /\ Store(Enlarged, d, t)

(* A full buffer doubles; when realloc fails, the record is dropped and the *)
(* caller is not told.                                                      *)
pcie_trace_record(d, t) ==
    \/ /\ trace_count # trace_capacity
       /\ Store(trace_records, d, t)
       /\ UNCHANGED trace_capacity
    \/ /\ trace_count = trace_capacity
       /\ trace_capacity' = Grown
       /\ Store(Enlarged, d, t)
    \/ /\ trace_count = trace_capacity
       /\ UNCHANGED <<trace_records, trace_count, trace_capacity, high>>

(* History: a call asked for a record.                                      *)
Ask(d, t) == /\ req.n < MaxRequests
             /\ req' = [n |-> req.n + 1, dir |-> d, tlp |-> t]

-----------------------------------------------------------------------------
(* Opening and closing                                                      *)

Init ==
    /\ open = FALSE
    /\ trace_records = << >> /\ trace_count = 0 /\ trace_capacity = 0
    /\ stats = [sent |-> 0, received |-> 0]
    /\ sniffers = << >> /\ since = << >>
    /\ rx_addr_min = AddrMax /\ rx_addr_max = 0
    /\ loop = "out" /\ i = 0 /\ seen = << >> /\ calls = << >>
    /\ high = 0 /\ req = [n |-> 0]

(* calloc, and the two assignments behind it.                               *)
FreshContext ==
    /\ trace_records' = << >> /\ trace_count' = 0 /\ trace_capacity' = 0
    /\ stats' = [sent |-> 0, received |-> 0]
    /\ sniffers' = << >> /\ since' = << >>
    /\ rx_addr_min' = AddrMax /\ rx_addr_max' = 0
    /\ loop' = "out" /\ i' = 0 /\ seen' = << >> /\ calls' = << >>
    /\ high' = 0 /\ req' = [n |-> 0]

(* A failed pcie_open (unknown backend, no memory) leaves no context.       *)
pcie_open == /\ ~open
             /\ open' = TRUE
             /\ FreshContext

(* The context is gone; what it held no longer means anything.              *)
pcie_close == /\ open /\ loop = "out"
              /\ open' = FALSE
              /\ FreshContext

(* The application can make a call: its context is open, and pcie_loop is   *)
(* not running or has handed control to a callback.  A registration beyond  *)
(* the sniffers[] array overwrites sniffer_count and the fields behind it;  *)
(* nothing but pcie_close is defined from there on.                         *)
InCallback == loop = "callback"
CanCall == /\ open
           /\ loop = "out" \/ InCallback
           /\ Len(sniffers) <= SnifferSlots

-----------------------------------------------------------------------------
(* Sending, receiving, tracing                                              *)

(* stats.sent counts attempts; only what the backend took is recorded.      *)
pcie_send(t, rc) ==
    /\ CanCall
    /\ stats.sent < MaxSent
    /\ stats' = [stats EXCEPT !.sent = @ + 1]
    /\ IF rc = 0 THEN Ask("TX", t) /\ pcie_trace_record("TX", t)
                 ELSE UNCHANGED traceVars
    /\ UNCHANGED <<open, regVars, rxAddr, loopVars>>

(* A recv that fails changes nothing of the context.                        *)
pcie_recv(t) ==
    /\ CanCall
    /\ stats.received < MaxReceived
    /\ stats' = [stats EXCEPT !.received = @ + 1]
    /\ Ask("RX", t)
    /\ pcie_trace_record("RX", t)
    /\ UNCHANGED <<open, regVars, rxAddr, loopVars>>

pcie_trace_append(d, t) ==
    /\ CanCall
    /\ Ask(d, t)
    /\ pcie_trace_record(d, t)
    /\ UNCHANGED <<open, stats, regVars, rxAddr, loopVars>>

(* The count goes to zero; the array and its contents stay.                 *)
pcie_trace_reset ==
    /\ CanCall
    /\ trace_count' = 0
    /\ UNCHANGED <<open, trace_records, trace_capacity, high, req, stats,
                   regVars, rxAddr, loopVars>>

-----------------------------------------------------------------------------
(* Sniffers and the receive loop                                            *)

(* A sniffer registered by a callback is reached by the scan in progress.   *)
pcie_sniff(f) ==
    /\ CanCall
    /\ Len(sniffers) < MaxRegistrations
    /\ sniffers' = Append(sniffers, f)
    /\ since' = Append(since, IF InCallback THEN Len(seen) - 1 ELSE Len(seen))
    /\ UNCHANGED <<open, traceVars, stats, rxAddr, loopVars>>

LoopEnter ==
    /\ CanCall /\ loop = "out"
    /\ loop' = "recv"
    /\ UNCHANGED <<open, traceVars, stats, regVars, rxAddr, i, seen, calls>>

(* The backend delivers a packet: the scan of the sniffers begins.          *)
LoopRecv(t) ==
    /\ loop = "recv"
    /\ stats.received < MaxReceived
    /\ stats' = [stats EXCEPT !.received = @ + 1]
    /\ seen' = Append(seen, t)
    /\ loop' = "scan"
    /\ i' = 1
    /\ UNCHANGED <<open, traceVars, regVars, rxAddr, calls>>

(* The backend reports failure or that it has nothing: the loop returns.    *)
LoopStop ==
    /\ loop = "recv"
    /\ loop' = "out"
    /\ UNCHANGED <<open, traceVars, stats, regVars, rxAddr, i, seen, calls>>

(* One turn of the scan: call the sniffer back, pass it over, or finish.    *)
(* sniffer_count is read anew at every turn.                                *)
Matches == pcie_filter_match(sniffers[i], seen[Len(seen)])

Scan ==
    /\ loop = "scan"
    /\ Len(sniffers) <= SnifferSlots
    /\ \/ /\ i <= Len(sniffers) /\ Matches
          /\ loop' = "callback"
          /\ calls' = Append(calls, <<Len(seen), i>>)
          /\ UNCHANGED i
       \/ /\ i <= Len(sniffers) /\ ~Matches
          /\ i' = i + 1
          /\ UNCHANGED <<loop, calls>>
       \/ /\ i > Len(sniffers)
          /\ loop' = "recv"
          /\ UNCHANGED <<i, calls>>
    /\ UNCHANGED <<open, traceVars, stats, regVars, rxAddr, seen>>

(* Mutants: the loop stops at the first sniffer that matches; it calls the  *)
(* same sniffer again.                                                      *)
CallbackReturnMutant ==
    /\ InCallback
    /\ loop' = "recv"
    /\ UNCHANGED <<open, traceVars, stats, regVars, rxAddr, i, seen, calls>>

CallbackAgainMutant ==
    /\ InCallback
    /\ loop' = "scan"
    /\ UNCHANGED <<open, traceVars, stats, regVars, rxAddr, i, seen, calls>>

CallbackReturn ==
    /\ InCallback
    /\ Len(sniffers) <= SnifferSlots
    /\ loop' = "scan"
    /\ i' = i + 1
    /\ UNCHANGED <<open, traceVars, stats, regVars, rxAddr, seen, calls>>

-----------------------------------------------------------------------------
Next ==
    \/ pcie_open
    \/ pcie_close
    \/ \E t \in Tlp, rc \in {0, 1} : pcie_send(t, rc)
    \/ \E t \in Tlp : pcie_recv(t)
    \/ \E d \in Direction, t \in Tlp : pcie_trace_append(d, t)
    \/ pcie_trace_reset
    \/ \E f \in Filters : pcie_sniff(f)
    \/ LoopEnter
    \/ \E t \in Tlp : LoopRecv(t)
    \/ LoopStop
    \/ Scan
    \/ CallbackReturn

Spec == Init /\ [][Next]_vars

-----------------------------------------------------------------------------
(* Properties                                                               *)

(* The variables have their types; in particular the record array is as     *)
(* long as trace_capacity says.                                             *)
TypeOK ==
    /\ open \in BOOLEAN
    /\ trace_count \in Nat /\ trace_capacity \in Nat /\ high \in Nat
    /\ trace_records \in [1..trace_capacity -> Record]
    /\ stats \in [sent : Nat, received : Nat]
    /\ sniffers \in Seq(Filters) /\ since \in Seq(Nat)
    /\ rx_addr_min \in 0..AddrMax /\ rx_addr_max \in 0..AddrMax
    /\ loop \in {"out", "recv", "scan", "callback"} /\ i \in Nat
    /\ req.n \in Nat
    /\ seen \in Seq(Tlp)
    /\ calls \in Seq(Nat \X Nat)

(* The record a caller is entitled to: the TLP's fields and as much of its  *)
(* payload as a record holds, zero where the TLP has no byte.               *)
RecordOf(d, t) ==
    [direction |-> d, type |-> t.type, length |-> t.length, addr |-> t.addr,
     payload |-> [k \in 1..PayloadSize |->
                    IF t.data # NoData /\ k <= t.length THEN t.data[k] ELSE 0]]

(* The array with its counter, its growth and the reuse of slots after      *)
(* pcie_trace_reset behaves as a log: records appear only at the end,       *)
(* complete and with no trace of what the slot held before, no recorded     *)
(* TLP is ever altered or lost by a reallocation, and a request is dropped  *)
(* only when the log is as long as it has ever been.                        *)
Log == INSTANCE TraceLog WITH log <- SubSeq(trace_records, 1, trace_count)
ImplementsLog == Log!Spec

(* However often the buffer is filled and reset, the memory pcie_trace_     *)
(* record holds is never more than twice what some moment needed.           *)
TraceMemoryBounded ==
    \/ trace_capacity = 0
    \/ trace_capacity = InitialCapacity
    \/ trace_capacity <= 2 * (high - 1)

(* The sniffer at position s is done with packet n when the scan of n has   *)
(* left s behind, or is inside its callback.                                *)
Done(n, s) == \/ n < Len(seen)
              \/ n = Len(seen) /\ loop \in {"out", "recv"}
              \/ n = Len(seen) /\ loop = "scan" /\ s < i
              \/ n = Len(seen) /\ loop = "callback" /\ s <= i

(* pcie_loop calls each sniffer for exactly the packets its filter selects, *)
(* from its registration on.  One that a callback registers is shown the    *)
(* packet being dispatched as well.                                         *)
CallsExact ==
    {calls[k] : k \in 1..Len(calls)} =
        {c \in (1..Len(seen)) \X (1..Len(sniffers)) :
            /\ since[c[2]] < c[1]
            /\ Done(c[1], c[2])
            /\ pcie_filter_match(sniffers[c[2]], seen[c[1]])}

(* Callbacks come packet by packet, and for one packet in the order of      *)
(* registration; so no callback is made twice for a packet.                 *)
CallsOrdered ==
    \A k \in 1..Len(calls), l \in 1..Len(calls) :
        k < l => \/ calls[k][1] < calls[l][1]
                 \/ calls[k][1] = calls[l][1] /\ calls[k][2] < calls[l][2]

(* The range pcie_rx_addr_min and pcie_rx_addr_max report, which            *)
(* examples/sniff_and_send.c prints as the "RX address range", covers       *)
(* every address the loop received.                                         *)
RxRangeCovers ==
    \A n \in 1..Len(seen) :
        rx_addr_min <= seen[n].addr /\ seen[n].addr <= rx_addr_max
=============================================================================
