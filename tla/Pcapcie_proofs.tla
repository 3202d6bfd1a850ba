--------------------------- MODULE Pcapcie_proofs ---------------------------
(***************************************************************************)
(* Theorems about Pcapcie, for every value of its constants.               *)
(***************************************************************************)
EXTENDS Pcapcie, TLAPS, SequenceTheorems

USE DEF Byte, Direction, TlpType, MEM_READ, MEM_WRITE, CFG_READ, CFG_WRITE,
        CPL, UNKNOWN

-----------------------------------------------------------------------------
(* What a slot holds after a record was written into it: a record, and one  *)
(* that depends on the TLP alone, not on what the slot held before.         *)
LEMMA WriteEntryLemma ==
    ASSUME NEW entry \in Record, NEW d \in Direction, NEW t \in Tlp
    PROVE  /\ WriteEntry(entry, d, t) \in Record
           /\ WriteEntry(entry, d, t) = RecordOf(d, t)
<1>1. Zeroed(entry).payload = [k \in 1..PayloadSize |-> 0]
  BY DEF Zeroed, Record
<1>2. WriteEntry(entry, d, t) = RecordOf(d, t)
  BY <1>1 DEF WriteEntry, Fill, RecordOf
<1>3. RecordOf(d, t) \in Record
  <2>1. /\ t.type \in TlpType /\ t.length \in Nat /\ t.addr \in 0..AddrMax
        /\ t.data = NoData \/ (t.data \in Seq(Byte) /\ t.length <= Len(t.data))
    BY TlpAssumption
  <2>2. [k \in 1..PayloadSize |->
           IF t.data # NoData /\ k <= t.length THEN t.data[k] ELSE 0]
          \in Payload
    <3> SUFFICES ASSUME NEW k \in 1..PayloadSize
                 PROVE  (IF t.data # NoData /\ k <= t.length
                           THEN t.data[k] ELSE 0) \in Byte
      BY DEF Payload
    <3>1. CASE t.data # NoData /\ k <= t.length
      <4>1. k \in 1..Len(t.data) /\ t.data \in Seq(Byte)
        BY <2>1, <3>1, SizeAssumption
      <4>2. t.data[k] \in Byte
        BY <4>1, ElementOfSeq, Zenon
      <4> QED BY <3>1, <4>2
    <3>2. CASE ~(t.data # NoData /\ k <= t.length)
      BY <3>2
    <3> QED BY <3>1, <3>2
  <2> QED BY <2>1, <2>2 DEF RecordOf, Record
<1> QED BY <1>2, <1>3

(* What realloc leaves in a slot is a record, of unknown contents.          *)
LEMMA JunkLemma == Junk \in Record
BY SizeAssumption DEF Junk, Record, Payload

-----------------------------------------------------------------------------
(* The inductive invariant of the trace buffer: types, what is counted      *)
(* fits, and the buffer was never fuller than it is large, but at least     *)
(* half as full.                                                            *)
BufferInv ==
    /\ trace_count \in Nat /\ trace_capacity \in Nat /\ high \in Nat
    /\ trace_records \in [1..trace_capacity -> Record]
    /\ req.n \in Nat
    /\ trace_count <= high
    /\ high <= trace_capacity
    /\ TraceMemoryBounded

(* The inductive invariant of everything else: types, and where the loop    *)
(* can be.  In a scan a packet has been received, and every sniffer is      *)
(* entitled to it.                                                          *)
LoopInv ==
    /\ open \in BOOLEAN
    /\ stats \in [sent : Nat, received : Nat]
    /\ sniffers \in Seq(Filters) /\ since \in Seq(Nat)
    /\ rx_addr_min \in 0..AddrMax /\ rx_addr_max \in 0..AddrMax
    /\ loop \in {"out", "recv", "scan", "callback"} /\ i \in Nat
    /\ seen \in Seq(Tlp) /\ calls \in Seq(Nat \X Nat)
    /\ Len(since) = Len(sniffers)
    /\ \A s \in 1..Len(since) : since[s] <= Len(seen)
    /\ loop \in {"scan", "callback"} =>
          /\ Len(seen) >= 1
          /\ \A s \in 1..Len(since) : since[s] < Len(seen)
          /\ i \in 1..(Len(sniffers) + 1)
    /\ loop = "callback" => i <= Len(sniffers)

Inv == BufferInv /\ LoopInv

-----------------------------------------------------------------------------
(* Recording a TLP preserves the invariant of the buffer.                   *)
LEMMA RecordStep ==
    ASSUME BufferInv, NEW d \in Direction, NEW t \in Tlp,
           Ask(d, t), pcie_trace_record(d, t)
    PROVE  BufferInv'
<1>0. req'.n \in Nat
  BY DEF Ask, BufferInv
<1>1. CASE /\ trace_count # trace_capacity
           /\ Store(trace_records, d, t)
           /\ UNCHANGED trace_capacity
  <2>1. trace_count + 1 \in 1..trace_capacity
    BY <1>1 DEF BufferInv
  <2>2. WriteEntry(trace_records[trace_count + 1], d, t) \in Record
    BY <2>1, WriteEntryLemma DEF BufferInv
  <2>3. trace_records' \in [1..trace_capacity' -> Record]
    BY <1>1, <2>2 DEF BufferInv, Store
  <2> QED BY <1>0, <1>1, <2>3 DEF BufferInv, TraceMemoryBounded, Store
<1>2. CASE /\ trace_count = trace_capacity
           /\ trace_capacity' = Grown
           /\ Store(Enlarged, d, t)
  <2>1. Grown \in Nat /\ Grown > trace_capacity
    BY SizeAssumption DEF Grown, BufferInv
  <2>2. Enlarged \in [1..Grown -> Record]
    BY <2>1, JunkLemma DEF Enlarged, BufferInv
  <2>3. trace_count + 1 \in 1..Grown
    BY <1>2, <2>1 DEF BufferInv
  <2>4. WriteEntry(Enlarged[trace_count + 1], d, t) \in Record
    BY <2>2, <2>3, WriteEntryLemma
  <2>5. trace_records' \in [1..trace_capacity' -> Record]
    BY <1>2, <2>2, <2>4 DEF Store
  <2> QED BY <1>0, <1>2, <2>1, <2>5, SizeAssumption
          DEF BufferInv, TraceMemoryBounded, Store, Grown
<1>3. CASE /\ trace_count = trace_capacity
           /\ UNCHANGED <<trace_records, trace_count, trace_capacity, high>>
  BY <1>0, <1>3 DEF BufferInv, TraceMemoryBounded
<1> QED BY <1>1, <1>2, <1>3 DEF pcie_trace_record

(* BufferInv is inductive: what does not touch the array, a fresh context,  *)
(* a step.                                                                  *)
LEMMA BufferUnchanged == BufferInv /\ UNCHANGED traceVars => BufferInv'
BY DEF BufferInv, TraceMemoryBounded, traceVars

LEMMA BufferFresh == FreshContext => BufferInv'
<1>1. << >> \in [1..0 -> Record]
  OBVIOUS
<1> QED BY <1>1 DEF FreshContext, BufferInv, TraceMemoryBounded

LEMMA BufferStep == BufferInv /\ [Next]_vars => BufferInv'
<1> SUFFICES ASSUME BufferInv, [Next]_vars PROVE BufferInv'
  OBVIOUS
<1>1. CASE pcie_open \/ pcie_close
  BY <1>1, BufferFresh DEF pcie_open, pcie_close
<1>2. ASSUME NEW t \in Tlp, NEW rc \in {0, 1}, pcie_send(t, rc)
      PROVE  BufferInv'
  BY <1>2, RecordStep, BufferUnchanged DEF pcie_send
<1>3. ASSUME NEW t \in Tlp, pcie_recv(t)
      PROVE  BufferInv'
  BY <1>3, RecordStep DEF pcie_recv
<1>4. ASSUME NEW d \in Direction, NEW t \in Tlp, pcie_trace_append(d, t)
      PROVE  BufferInv'
  BY <1>4, RecordStep DEF pcie_trace_append
<1>5. CASE pcie_trace_reset
  BY <1>5 DEF pcie_trace_reset, BufferInv, TraceMemoryBounded
<1>6. CASE \/ \E f \in Filters : pcie_sniff(f)
           \/ LoopEnter
           \/ \E t \in Tlp : LoopRecv(t)
           \/ LoopStop
           \/ Scan
           \/ CallbackReturn
           \/ UNCHANGED vars
  <2>1. UNCHANGED traceVars
    BY <1>6 DEF pcie_sniff, LoopEnter, LoopRecv, LoopStop, Scan,
                CallbackReturn, vars
  <2> QED BY <2>1, BufferUnchanged
<1> QED
  BY <1>1, <1>2, <1>3, <1>4, <1>5, <1>6 DEF Next

-----------------------------------------------------------------------------
(* The rest of the state.                                                   *)
LEMMA LoopFresh == FreshContext /\ open' \in BOOLEAN => LoopInv'
BY SizeAssumption DEF FreshContext, LoopInv

(* A registration: the table and the list of starting points grow together, *)
(* and one made by a callback is entitled to the packet at hand.            *)
LEMMA SniffStep ==
    ASSUME LoopInv, NEW f \in Filters, pcie_sniff(f)
    PROVE  LoopInv'
<1> DEFINE from == IF InCallback THEN Len(seen) - 1 ELSE Len(seen)
<1>1. from \in Nat /\ from <= Len(seen)
  BY DEF LoopInv, InCallback
<1>2. /\ sniffers' \in Seq(Filters) /\ since' \in Seq(Nat)
      /\ Len(sniffers') = Len(sniffers) + 1
      /\ Len(since') = Len(since) + 1
      /\ \A s \in 1..Len(since) : since'[s] = since[s]
      /\ since'[Len(since) + 1] = from
  BY <1>1 DEF pcie_sniff, LoopInv
<1>3. /\ loop' = loop /\ i' = i /\ seen' = seen /\ calls' = calls
      /\ open' = open /\ stats' = stats
      /\ rx_addr_min' = rx_addr_min /\ rx_addr_max' = rx_addr_max
  BY DEF pcie_sniff, loopVars, rxAddr
<1>4. loop = "out" \/ InCallback
  BY DEF pcie_sniff, CanCall
<1>5. ASSUME NEW s \in 1..Len(since')
      PROVE  /\ since'[s] <= Len(seen')
             /\ loop' = "callback" => since'[s] < Len(seen')
  <2>1. s \in 1..Len(since) \/ s = Len(since) + 1
    BY <1>2 DEF LoopInv
  <2>2. CASE s \in 1..Len(since)
    BY <1>2, <1>3, <2>2 DEF LoopInv
  <2>3. CASE s = Len(since) + 1
    <3>1. since'[s] = from /\ seen' = seen /\ loop' = loop
      BY <1>2, <1>3, <2>3
    <3>2. loop = "callback" => from = Len(seen) - 1
      BY DEF InCallback
    <3> QED BY <1>1, <3>1, <3>2 DEF LoopInv
  <2> QED BY <2>1, <2>2, <2>3
<1>6. loop' = "callback" => i' \in 1..(Len(sniffers') + 1) /\ i' <= Len(sniffers')
  BY <1>2, <1>3 DEF LoopInv
<1> QED
  BY <1>2, <1>3, <1>4, <1>5, <1>6 DEF LoopInv, InCallback

(* So is LoopInv.                                                           *)
LEMMA LoopStep == LoopInv /\ [Next]_vars => LoopInv'
<1> SUFFICES ASSUME LoopInv, [Next]_vars PROVE LoopInv'
  OBVIOUS
<1>1. CASE pcie_open \/ pcie_close
  BY <1>1, LoopFresh DEF pcie_open, pcie_close
<1>2. CASE \/ \E t \in Tlp, rc \in {0, 1} : pcie_send(t, rc)
           \/ \E t \in Tlp : pcie_recv(t)
           \/ \E d \in Direction, t \in Tlp : pcie_trace_append(d, t)
           \/ pcie_trace_reset
           \/ UNCHANGED vars
  <2>1. /\ UNCHANGED <<open, regVars, rxAddr, loopVars>>
        /\ stats' \in [sent : Nat, received : Nat]
    BY <1>2 DEF pcie_send, pcie_recv, pcie_trace_append, pcie_trace_reset,
                vars, LoopInv
  <2> QED BY <2>1 DEF LoopInv, regVars, rxAddr, loopVars
<1>3. ASSUME NEW f \in Filters, pcie_sniff(f)
      PROVE  LoopInv'
  BY <1>3, SniffStep
<1>4. CASE LoopEnter
  BY <1>4 DEF LoopEnter, LoopInv, regVars, rxAddr
<1>5. ASSUME NEW t \in Tlp, LoopRecv(t)
      PROVE  LoopInv'
  <2>1. /\ seen' \in Seq(Tlp) /\ Len(seen') = Len(seen) + 1
        /\ Len(seen) \in Nat
    BY <1>5 DEF LoopRecv, LoopInv
  <2>2. stats' \in [sent : Nat, received : Nat]
    <3>1. /\ stats \in [sent : Nat, received : Nat]
          /\ stats' = [stats EXCEPT !.received = @ + 1]
      BY <1>5 DEF LoopRecv, LoopInv
    <3> QED BY <3>1
  <2>3. \A s \in 1..Len(since) : since[s] \in Nat
    BY DEF LoopInv
  <2>4. /\ sniffers' = sniffers /\ since' = since /\ calls' = calls
        /\ open' = open /\ loop' = "scan" /\ i' = 1
        /\ rx_addr_min' = rx_addr_min /\ rx_addr_max' = rx_addr_max
    BY <1>5 DEF LoopRecv, regVars, rxAddr
  <2> QED BY <2>1, <2>2, <2>3, <2>4 DEF LoopInv
<1>6. CASE LoopStop
  BY <1>6 DEF LoopStop, LoopInv, regVars, rxAddr
<1>7. CASE Scan
  <2>1. UNCHANGED <<open, stats, regVars, rxAddr, seen>> /\ loop = "scan"
    BY <1>7 DEF Scan
  <2>2. CASE /\ i <= Len(sniffers) /\ loop' = "callback"
             /\ calls' = Append(calls, <<Len(seen), i>>) /\ i' = i
    <3>1. calls' \in Seq(Nat \X Nat)
      <4>1. <<Len(seen), i>> \in Nat \X Nat
        BY DEF LoopInv
      <4> QED BY <2>2, <4>1, AppendProperties DEF LoopInv
    <3> QED BY <2>1, <2>2, <3>1 DEF LoopInv, regVars, rxAddr
  <2>3. CASE /\ i <= Len(sniffers) /\ i' = i + 1
             /\ UNCHANGED <<loop, calls>>
    BY <2>1, <2>3 DEF LoopInv, regVars, rxAddr
  <2>4. CASE loop' = "recv" /\ UNCHANGED <<i, calls>>
    BY <2>1, <2>4 DEF LoopInv, regVars, rxAddr
  <2> QED BY <1>7, <2>2, <2>3, <2>4 DEF Scan
<1>8. CASE CallbackReturn
  BY <1>8 DEF CallbackReturn, InCallback, LoopInv, regVars, rxAddr
<1> QED
  BY <1>1, <1>2, <1>3, <1>4, <1>5, <1>6, <1>7, <1>8 DEF Next

-----------------------------------------------------------------------------
(* Together they hold in every state.                                       *)
LEMMA InitInv == Init => Inv
<1>1. << >> \in [1..0 -> Record]
  OBVIOUS
<1>2. Init => BufferInv
  BY <1>1 DEF Init, BufferInv, TraceMemoryBounded
<1>3. Init => open \in BOOLEAN
  BY DEF Init
<1>4. Init => LoopInv
  BY <1>3, SizeAssumption DEF Init, LoopInv
<1> QED BY <1>2, <1>4 DEF Inv

LEMMA InvHolds == Spec => []Inv
<1>1. Inv /\ [Next]_vars => Inv'
  BY BufferStep, LoopStep DEF Inv
<1> QED BY InitInv, <1>1, PTL DEF Spec

(* Every variable keeps its type, whatever the application, its callbacks   *)
(* and the backend do; in particular the record array is always as large as *)
(* trace_capacity says.                                                     *)
THEOREM TypeCorrect == Spec => []TypeOK
<1>1. Inv => TypeOK
  BY DEF Inv, BufferInv, LoopInv, TypeOK
<1> QED BY InvHolds, <1>1, PTL

(* The memory of the trace buffer is bounded by its peak use, across any    *)
(* number of resets and failed reallocations.                               *)
THEOREM TraceMemory == Spec => []TraceMemoryBounded
<1>1. Inv => TraceMemoryBounded
  BY DEF Inv, BufferInv
<1> QED BY InvHolds, <1>1, PTL

-----------------------------------------------------------------------------
(* The buffer as a log.                                                     *)
LEMMA PrefixLemma ==
    ASSUME NEW S, NEW c \in Nat, NEW arr \in [1..c -> S], NEW n \in 0..c
    PROVE  /\ SubSeq(arr, 1, n) \in Seq(S)
           /\ Len(SubSeq(arr, 1, n)) = n
           /\ \A k \in 1..n : SubSeq(arr, 1, n)[k] = arr[k]
<1>1. arr \in Seq(S) /\ Len(arr) = c
  BY SeqDef
<1>2. 1 \in 1..(Len(arr) + 1) /\ n \in (1 - 1)..Len(arr)
  BY <1>1
<1> QED BY <1>1, <1>2, SubSeqProperties

(* One more element behind a prefix.                                        *)
LEMMA PrefixAppend ==
    ASSUME NEW S, NEW c \in Nat, NEW arr \in [1..c -> S],
           NEW cc \in Nat, NEW brr \in [1..cc -> S],
           NEW n \in 0..c, n + 1 <= cc,
           \A k \in 1..n : brr[k] = arr[k]
    PROVE  SubSeq(brr, 1, n + 1) = Append(SubSeq(arr, 1, n), brr[n + 1])
<1> DEFINE old == SubSeq(arr, 1, n)
           new == SubSeq(brr, 1, n + 1)
<1>1. /\ old \in Seq(S) /\ Len(old) = n
      /\ \A k \in 1..n : old[k] = arr[k]
  BY PrefixLemma
<1>2. /\ new \in Seq(S) /\ Len(new) = n + 1
      /\ \A k \in 1..(n + 1) : new[k] = brr[k]
  <2>1. n + 1 \in 0..cc
    OBVIOUS
  <2> QED BY <2>1, PrefixLemma
<1>3. brr[n + 1] \in S
  OBVIOUS
<1>4. /\ Append(old, brr[n + 1]) \in Seq(S)
      /\ Len(Append(old, brr[n + 1])) = n + 1
      /\ \A k \in 1..n : Append(old, brr[n + 1])[k] = old[k]
      /\ Append(old, brr[n + 1])[n + 1] = brr[n + 1]
  BY <1>1, <1>3, AppendProperties
<1>5. \A k \in 1..(n + 1) : new[k] = Append(old, brr[n + 1])[k]
  <2> SUFFICES ASSUME NEW k \in 1..(n + 1)
               PROVE  new[k] = Append(old, brr[n + 1])[k]
    OBVIOUS
  <2>1. CASE k \in 1..n
    BY <1>1, <1>2, <1>4, <2>1
  <2>2. CASE k = n + 1
    BY <1>2, <1>4, <2>2
  <2> QED BY <2>1, <2>2
<1> HIDE DEF old, new
<1>6. new = Append(old, brr[n + 1])
  BY <1>2, <1>4, <1>5, SeqEqual
<1> QED BY <1>6 DEF old, new

(* pcie_trace_record, whichever of its three ways it takes, is a Record     *)
(* step of the log.                                                         *)
LEMMA RecordRefines ==
    ASSUME BufferInv, BufferInv', NEW d \in Direction, NEW t \in Tlp,
           Ask(d, t), pcie_trace_record(d, t)
    PROVE  Log!Record(d, t)
<1> DEFINE old == SubSeq(trace_records, 1, trace_count)
<1>0. Len(old) = trace_count
  BY PrefixLemma DEF BufferInv
<1>1. ASSUME NEW mem \in [1..trace_capacity' -> Record],
             trace_count + 1 <= trace_capacity',
             \A k \in 1..trace_count : mem[k] = trace_records[k],
             Store(mem, d, t)
      PROVE  Log!Record(d, t)
  <2>1. trace_count + 1 \in 1..trace_capacity'
    BY <1>1 DEF BufferInv
  <2>2. trace_records'[trace_count + 1] = RecordOf(d, t)
    BY <1>1, <2>1, WriteEntryLemma DEF Store
  <2>3. \A k \in 1..trace_count : trace_records'[k] = trace_records[k]
    BY <1>1, <2>1 DEF Store, BufferInv
  <2>4. SubSeq(trace_records', 1, trace_count + 1)
          = Append(old, trace_records'[trace_count + 1])
    BY <1>1, <2>3, PrefixAppend DEF BufferInv
  <2>5. trace_count' = trace_count + 1
    BY <1>1 DEF Store
  <2>6. SubSeq(trace_records', 1, trace_count') = Append(old, RecordOf(d, t))
    BY <2>2, <2>4, <2>5
  <2> QED BY <1>0, <1>1, <2>6 DEF Log!Record, Ask, Store
<1>2. CASE /\ trace_count # trace_capacity
           /\ Store(trace_records, d, t)
           /\ UNCHANGED trace_capacity
  BY <1>1, <1>2 DEF BufferInv
<1>3. CASE /\ trace_count = trace_capacity
           /\ trace_capacity' = Grown
           /\ Store(Enlarged, d, t)
  <2>1. Grown \in Nat /\ Grown > trace_capacity
    BY SizeAssumption DEF Grown, BufferInv
  <2>2. /\ Enlarged \in [1..trace_capacity' -> Record]
        /\ \A k \in 1..trace_count : Enlarged[k] = trace_records[k]
    BY <1>3, <2>1, JunkLemma DEF Enlarged, BufferInv
  <2> QED BY <1>1, <1>3, <2>1, <2>2 DEF BufferInv
<1>4. CASE /\ trace_count = trace_capacity
           /\ UNCHANGED <<trace_records, trace_count, trace_capacity, high>>
  <2>1. trace_count = high
    BY <1>4 DEF BufferInv
  <2>2. UNCHANGED <<SubSeq(trace_records, 1, trace_count), high>>
    BY <1>4
  <2>3. req' = [n |-> req.n + 1, dir |-> d, tlp |-> t]
    BY DEF Ask
  <2>4. Len(SubSeq(trace_records, 1, trace_count)) = high
    BY <1>0, <2>1
  <2> QED BY <2>2, <2>3, <2>4, Zenon DEF Log!Record
<1> QED BY <1>2, <1>3, <1>4 DEF pcie_trace_record

(* Every step of the array is a step of the log, or a stutter.              *)
LEMMA StepRefines ==
    Inv /\ Inv' /\ [Next]_vars => [Log!Next]_Log!logvars
<1> SUFFICES ASSUME Inv, Inv', [Next]_vars
             PROVE  [Log!Next]_Log!logvars
  OBVIOUS
<1>0. BufferInv /\ BufferInv'
  BY DEF Inv
<1>1. CASE pcie_open \/ pcie_close
  <2>1. FreshContext
    BY <1>1 DEF pcie_open, pcie_close
  <2>2. SubSeq(trace_records', 1, trace_count') = << >>
    BY <2>1, SubSeqEmpty DEF FreshContext
  <2>3. Log!Close
    BY <2>1, <2>2 DEF Log!Close, Log!NoRequest, FreshContext
  <2> QED BY <2>3 DEF Log!Next
<1>2. ASSUME NEW t \in Tlp, NEW rc \in {0, 1}, pcie_send(t, rc)
      PROVE  [Log!Next]_Log!logvars
  <2>1. CASE Ask("TX", t) /\ pcie_trace_record("TX", t)
    <3>1. Log!Record("TX", t)
      BY <1>0, <2>1, RecordRefines
    <3> QED BY <3>1 DEF Log!Next
  <2>2. CASE UNCHANGED traceVars
    BY <2>2 DEF traceVars, Log!logvars
  <2> QED BY <1>2, <2>1, <2>2 DEF pcie_send
<1>3. ASSUME NEW d \in Direction, NEW t \in Tlp,
             Ask(d, t), pcie_trace_record(d, t)
      PROVE  [Log!Next]_Log!logvars
  <2>1. Log!Record(d, t)
    BY <1>0, <1>3, RecordRefines
  <2> QED BY <2>1 DEF Log!Next
<1>4. CASE pcie_trace_reset
  <2>1. trace_count' = 0 /\ UNCHANGED <<trace_records, high, req>>
    BY <1>4 DEF pcie_trace_reset
  <2>2. SubSeq(trace_records', 1, trace_count') = << >>
    BY <2>1, SubSeqEmpty
  <2>3. Log!Reset
    BY <2>1, <2>2 DEF Log!Reset
  <2> QED BY <2>3 DEF Log!Next
<1>5. CASE \/ \E f \in Filters : pcie_sniff(f)
           \/ LoopEnter
           \/ \E t \in Tlp : LoopRecv(t)
           \/ LoopStop
           \/ Scan
           \/ CallbackReturn
           \/ UNCHANGED vars
  <2>1. UNCHANGED traceVars
    BY <1>5 DEF pcie_sniff, LoopEnter, LoopRecv, LoopStop, Scan,
                CallbackReturn, vars
  <2> QED BY <2>1 DEF traceVars, Log!logvars
<1>6. CASE \E t \in Tlp : pcie_recv(t)
  BY <1>3, <1>6 DEF pcie_recv
<1>7. CASE \E d \in Direction, t \in Tlp : pcie_trace_append(d, t)
  BY <1>3, <1>7 DEF pcie_trace_append
<1> QED
  BY <1>1, <1>2, <1>4, <1>5, <1>6, <1>7 DEF Next

(* The trace buffer implements the log of TraceLog: what pcie_trace_count   *)
(* and the two writers see is what was asked to be recorded, in order and   *)
(* unaltered by growth and by the reuse of slots, and nothing is dropped    *)
(* while the log is shorter than it has been.                               *)
THEOREM TraceBufferImplementsLog == Spec => ImplementsLog
<1>1. Init => Log!Init
  <2> SUFFICES ASSUME Init PROVE Log!Init
    OBVIOUS
  <2>1. SubSeq(trace_records, 1, trace_count) = << >>
    BY SubSeqEmpty DEF Init
  <2> QED BY <2>1 DEF Init, Log!Init, Log!NoRequest
<1>2. Inv /\ Inv' /\ [Next]_vars => [Log!Next]_Log!logvars
  BY StepRefines
<1> QED BY <1>1, <1>2, InvHolds, PTL DEF Spec, ImplementsLog, Log!Spec

-----------------------------------------------------------------------------
(* The callbacks.  Packet n is due to sniffer s, at this point of the loop. *)
DueAt(n, s) ==
    /\ n \in 1..Len(seen)
    /\ s \in 1..Len(sniffers)
    /\ since[s] < n
    /\ Done(n, s)
    /\ pcie_filter_match(sniffers[s], seen[n])

Called(n, s) == \E k \in 1..Len(calls) : calls[k] = <<n, s>>

(* CallsExact, one callback at a time.                                      *)
CallsInv ==
    /\ \A n \in Nat, s \in Nat : Called(n, s) <=> DueAt(n, s)
    /\ CallsOrdered

(* What CallsInv says of a finished scan is CallsExact.                     *)
LEMMA CallsInvExact == LoopInv /\ CallsInv => CallsExact
<1> SUFFICES ASSUME LoopInv, CallsInv PROVE CallsExact
  OBVIOUS
<1> DEFINE Made == {calls[k] : k \in 1..Len(calls)}
           Owed == {c \in (1..Len(seen)) \X (1..Len(sniffers)) :
                      /\ since[c[2]] < c[1]
                      /\ Done(c[1], c[2])
                      /\ pcie_filter_match(sniffers[c[2]], seen[c[1]])}
<1>1. ASSUME NEW c \in Made PROVE c \in Owed
  <2>1. PICK k \in 1..Len(calls) : c = calls[k]
    OBVIOUS
  <2>2. c \in Nat \X Nat
    BY <2>1, ElementOfSeq DEF LoopInv
  <2>3. Called(c[1], c[2])
    BY <2>1, <2>2 DEF Called
  <2>4. DueAt(c[1], c[2])
    BY <2>2, <2>3 DEF CallsInv
  <2> QED BY <2>2, <2>4 DEF DueAt
<1>2. ASSUME NEW c \in Owed PROVE c \in Made
  <2>1. /\ c = <<c[1], c[2]>> /\ c[1] \in Nat /\ c[2] \in Nat
        /\ DueAt(c[1], c[2])
    BY DEF DueAt, LoopInv
  <2>2. PICK k \in 1..Len(calls) : calls[k] = <<c[1], c[2]>>
    BY <2>1 DEF CallsInv, Called
  <2> QED BY <2>1, <2>2
<1>3. Made = Owed
  BY <1>1, <1>2
<1> QED BY <1>3 DEF CallsExact

(* When neither the calls nor what is due changes, the invariant is kept.   *)
LEMMA CallsKept ==
    ASSUME LoopInv, CallsInv, calls' = calls,
           \A n \in Nat, s \in Nat : DueAt(n, s)' <=> DueAt(n, s)
    PROVE  CallsInv'
<1>1. \A n \in Nat, s \in Nat : Called(n, s)' <=> Called(n, s)
  BY DEF Called
<1>2. \A n \in Nat, s \in Nat : Called(n, s)' <=> DueAt(n, s)'
  BY <1>1 DEF CallsInv
<1>3. CallsOrdered'
  BY DEF CallsInv, CallsOrdered
<1> QED BY <1>2, <1>3 DEF CallsInv

(* A callback made where the scan stands: it is the one that has become     *)
(* due, and it comes after all the others.                                  *)
LEMMA CallMade ==
    ASSUME LoopInv, CallsInv, loop = "scan", i <= Len(sniffers), Matches,
           loop' = "callback", i' = i, seen' = seen,
           sniffers' = sniffers, since' = since,
           calls' = Append(calls, <<Len(seen), i>>)
    PROVE  CallsInv'
<1> DEFINE here == <<Len(seen), i>>
<1>1. /\ Len(seen) \in Nat /\ Len(seen) >= 1 /\ Len(calls) \in Nat
      /\ i \in 1..Len(sniffers) /\ since[i] < Len(seen)
      /\ Len(since) = Len(sniffers)
  BY DEF LoopInv
<1>2. /\ Len(calls') = Len(calls) + 1
      /\ \A k \in 1..Len(calls) : calls'[k] = calls[k]
      /\ calls'[Len(calls) + 1] = here
  <2>1. here \in Nat \X Nat /\ calls \in Seq(Nat \X Nat)
    BY <1>1 DEF LoopInv
  <2> QED BY <2>1, AppendProperties
<1>3. \A k \in 1..Len(calls) :
         /\ calls[k][1] \in Nat /\ calls[k][2] \in Nat
         /\ calls[k] = <<calls[k][1], calls[k][2]>>
  <2>1. ASSUME NEW k \in 1..Len(calls) PROVE calls[k] \in Nat \X Nat
    BY ElementOfSeq DEF LoopInv
  <2> QED BY <2>1
<1>4. \A n \in Nat, s \in Nat :
         DueAt(n, s)' <=> DueAt(n, s) \/ (n = Len(seen) /\ s = i)
  BY <1>1 DEF DueAt, Done, Matches
<1>5. \A k \in 1..Len(calls) :
         \/ calls[k][1] < Len(seen)
         \/ calls[k][1] = Len(seen) /\ calls[k][2] < i
  <2> SUFFICES ASSUME NEW k \in 1..Len(calls)
               PROVE  \/ calls[k][1] < Len(seen)
                      \/ calls[k][1] = Len(seen) /\ calls[k][2] < i
    OBVIOUS
  <2>1. Called(calls[k][1], calls[k][2])
    BY <1>3 DEF Called
  <2>2. DueAt(calls[k][1], calls[k][2])
    BY <1>3, <2>1 DEF CallsInv
  <2> QED BY <1>1, <2>2 DEF DueAt, Done
<1>6. \A n \in Nat, s \in Nat :
         Called(n, s)' <=> Called(n, s) \/ (n = Len(seen) /\ s = i)
  <2> SUFFICES ASSUME NEW n \in Nat, NEW s \in Nat
               PROVE  Called(n, s)' <=> Called(n, s) \/ <<n, s>> = here
    BY <1>1
  <2>1. ASSUME Called(n, s)' PROVE Called(n, s) \/ <<n, s>> = here
    <3>1. PICK k \in 1..Len(calls') : calls'[k] = <<n, s>>
      BY <2>1 DEF Called
    <3>2. k \in 1..Len(calls) \/ k = Len(calls) + 1
      BY <1>1, <1>2
    <3> QED BY <1>2, <3>1, <3>2 DEF Called
  <2>2. ASSUME Called(n, s) PROVE Called(n, s)'
    <3>1. PICK k \in 1..Len(calls) : calls[k] = <<n, s>>
      BY <2>2 DEF Called
    <3>2. k \in 1..Len(calls') /\ calls'[k] = <<n, s>>
      BY <1>1, <1>2, <3>1
    <3> QED BY <3>2 DEF Called
  <2>3. ASSUME <<n, s>> = here PROVE Called(n, s)'
    <3>1. Len(calls) + 1 \in 1..Len(calls')
      BY <1>1, <1>2
    <3> QED BY <1>2, <2>3, <3>1 DEF Called
  <2> QED BY <2>1, <2>2, <2>3
<1>7. \A n \in Nat, s \in Nat : Called(n, s)' <=> DueAt(n, s)'
  BY <1>4, <1>6 DEF CallsInv
<1>8. CallsOrdered'
  <2> SUFFICES ASSUME NEW k \in 1..Len(calls'), NEW l \in 1..Len(calls'), k < l
               PROVE  \/ calls'[k][1] < calls'[l][1]
                      \/ calls'[k][1] = calls'[l][1] /\ calls'[k][2] < calls'[l][2]
    BY DEF CallsOrdered
  <2>1. k \in 1..Len(calls)
    BY <1>1, <1>2
  <2>2. CASE l \in 1..Len(calls)
    <3>1. calls'[k] = calls[k] /\ calls'[l] = calls[l]
      BY <1>2, <2>1, <2>2
    <3>2. \/ calls[k][1] < calls[l][1]
          \/ calls[k][1] = calls[l][1] /\ calls[k][2] < calls[l][2]
      BY <2>1, <2>2 DEF CallsInv, CallsOrdered
    <3> QED BY <3>1, <3>2
  <2>3. CASE l = Len(calls) + 1
    <3>1. calls'[k] = calls[k] /\ calls'[l][1] = Len(seen) /\ calls'[l][2] = i
      BY <1>2, <2>1, <2>3
    <3> QED BY <1>5, <2>1, <3>1
  <2>4. l \in 1..Len(calls) \/ l = Len(calls) + 1
    BY <1>1, <1>2
  <2> QED BY <2>2, <2>3, <2>4
<1> QED BY <1>7, <1>8 DEF CallsInv

(* CallsInv is inductive: each turn of the scan finishes one pair more.     *)
LEMMA CallsStep == LoopInv /\ LoopInv' /\ CallsInv /\ [Next]_vars => CallsInv'
<1> SUFFICES ASSUME LoopInv, LoopInv', CallsInv, [Next]_vars PROVE CallsInv'
  OBVIOUS
<1>0. /\ Len(seen) \in Nat /\ Len(sniffers) \in Nat
      /\ Len(since) = Len(sniffers)
  BY DEF LoopInv
<1>1. CASE pcie_open \/ pcie_close
  BY <1>1 DEF pcie_open, pcie_close, FreshContext, CallsInv, Called, DueAt,
              CallsOrdered
<1>2. CASE \/ \E t \in Tlp, rc \in {0, 1} : pcie_send(t, rc)
           \/ \E t \in Tlp : pcie_recv(t)
           \/ \E d \in Direction, t \in Tlp : pcie_trace_append(d, t)
           \/ pcie_trace_reset
           \/ UNCHANGED vars
  <2>1. UNCHANGED <<regVars, loopVars>>
    BY <1>2 DEF pcie_send, pcie_recv, pcie_trace_append, pcie_trace_reset, vars
  <2> QED BY <2>1, CallsKept DEF DueAt, Done, regVars, loopVars
<1>3. ASSUME NEW f \in Filters, pcie_sniff(f)
      PROVE  CallsInv'
  <2>1. /\ UNCHANGED <<loop, i, seen, calls>>
        /\ loop = "out" \/ loop = "callback"
        /\ Len(sniffers') = Len(sniffers) + 1
        /\ \A s \in 1..Len(sniffers) :
              sniffers'[s] = sniffers[s] /\ since'[s] = since[s]
        /\ since'[Len(sniffers) + 1] =
              IF loop = "callback" THEN Len(seen) - 1 ELSE Len(seen)
    BY <1>0, <1>3 DEF pcie_sniff, CanCall, InCallback, loopVars, LoopInv
  <2>2. loop = "callback" => i <= Len(sniffers) /\ i \in Nat
    BY DEF LoopInv
  <2>3. ASSUME NEW n \in Nat, NEW s \in Nat PROVE DueAt(n, s)' <=> DueAt(n, s)
    <3>1. CASE s \in 1..Len(sniffers)
      BY <1>0, <2>1, <3>1 DEF DueAt, Done
    <3>2. CASE s = Len(sniffers) + 1
      BY <1>0, <2>1, <2>2, <3>2 DEF DueAt, Done
    <3>3. CASE s \notin 1..(Len(sniffers) + 1)
      BY <1>0, <2>1, <3>3 DEF DueAt
    <3> QED BY <1>0, <3>1, <3>2, <3>3
  <2> QED BY <2>1, <2>3, CallsKept
<1>4. CASE LoopEnter \/ LoopStop
  <2>1. /\ loop \in {"out", "recv"} /\ loop' \in {"out", "recv"}
        /\ UNCHANGED <<regVars, seen, calls>>
    BY <1>4 DEF LoopEnter, LoopStop
  <2> QED BY <2>1, CallsKept DEF DueAt, Done, regVars
<1>5. ASSUME NEW t \in Tlp, LoopRecv(t)
      PROVE  CallsInv'
  <2>1. /\ loop = "recv" /\ loop' = "scan" /\ i' = 1 /\ calls' = calls
        /\ sniffers' = sniffers /\ since' = since
        /\ Len(seen') = Len(seen) + 1
        /\ \A n \in 1..Len(seen) : seen'[n] = seen[n]
    BY <1>5 DEF LoopRecv, regVars, LoopInv
  <2>2. ASSUME NEW n \in Nat, NEW s \in Nat PROVE DueAt(n, s)' <=> DueAt(n, s)
    BY <1>0, <2>1 DEF DueAt, Done
  <2> QED BY <2>1, <2>2, CallsKept
<1>6. CASE Scan
  <2>0. loop = "scan" /\ UNCHANGED <<seen, sniffers, since>> /\ i \in Nat
    BY <1>6 DEF Scan, regVars, LoopInv
  <2>1. CASE /\ i <= Len(sniffers) /\ Matches
             /\ loop' = "callback"
             /\ calls' = Append(calls, <<Len(seen), i>>)
             /\ UNCHANGED i
    BY <2>0, <2>1, CallMade
  <2>2. CASE /\ i <= Len(sniffers) /\ ~Matches
             /\ i' = i + 1
             /\ UNCHANGED <<loop, calls>>
    <3>1. ASSUME NEW n \in Nat, NEW s \in Nat PROVE DueAt(n, s)' <=> DueAt(n, s)
      BY <1>0, <2>0, <2>2 DEF DueAt, Done, Matches
    <3> QED BY <2>2, <3>1, CallsKept
  <2>3. CASE i > Len(sniffers) /\ loop' = "recv" /\ UNCHANGED <<i, calls>>
    <3>1. ASSUME NEW n \in Nat, NEW s \in Nat PROVE DueAt(n, s)' <=> DueAt(n, s)
      BY <1>0, <2>0, <2>3 DEF DueAt, Done
    <3> QED BY <2>3, <3>1, CallsKept
  <2> QED BY <1>6, <2>1, <2>2, <2>3 DEF Scan
<1>7. CASE CallbackReturn
  <2>1. /\ loop = "callback" /\ loop' = "scan" /\ i' = i + 1 /\ i \in Nat
        /\ UNCHANGED <<seen, sniffers, since, calls>>
    BY <1>7 DEF CallbackReturn, InCallback, regVars, LoopInv
  <2>2. ASSUME NEW n \in Nat, NEW s \in Nat PROVE DueAt(n, s)' <=> DueAt(n, s)
    BY <1>0, <2>1 DEF DueAt, Done
  <2> QED BY <2>1, <2>2, CallsKept
<1> QED
  BY <1>1, <1>2, <1>3, <1>4, <1>5, <1>6, <1>7 DEF Next

(* So it holds in every state.                                              *)
LEMMA CallsInvHolds == Spec => [](LoopInv /\ CallsInv)
<1>1. Init => LoopInv /\ CallsInv
  BY InitInv DEF Inv, Init, CallsInv, Called, DueAt, CallsOrdered
<1>2. LoopInv /\ CallsInv /\ [Next]_vars => LoopInv' /\ CallsInv'
  BY LoopStep, CallsStep
<1> QED BY <1>1, <1>2, PTL DEF Spec

(* pcie_loop calls a sniffer for exactly the packets its filter selects,    *)
(* from its registration on, whoever registers when.                        *)
THEOREM LoopCallsExact == Spec => []CallsExact
<1>1. LoopInv /\ CallsInv => CallsExact
  BY CallsInvExact
<1> QED BY CallsInvHolds, <1>1, PTL

(* Callbacks come in the order of packets and, within one, of registration; *)
(* none is made twice.                                                      *)
THEOREM LoopCallsOrdered == Spec => []CallsOrdered
<1>1. LoopInv /\ CallsInv => CallsOrdered
  BY DEF CallsInv
<1> QED BY CallsInvHolds, <1>1, PTL
=============================================================================
