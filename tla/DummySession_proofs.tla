------------------------ MODULE DummySession_proofs ------------------------
(***************************************************************************)
(* Theorems about a process that uses the library with its dummy backend,  *)
(* for every value of the constants.                                       *)
(***************************************************************************)
EXTENDS DummySession, Pcapcie_proofs

-----------------------------------------------------------------------------
(* What the process does to its contexts is what Pcapcie lets any           *)
(* application and any backend do.                                          *)
LEMMA DummyStepIsStep ==
    ASSUME count \in Nat, [DummyNext]_dummyVars
    PROVE  [Next]_vars
<1>1. CASE Application
  BY <1>1 DEF Application, Next
<1>2. CASE Dispatch
  BY <1>2 DEF Dispatch, Next
<1>3. ASSUME DummyRecv PROVE Generated(count) \in Tlp
  <2>1. count \in 0..(Limit - 1)
    BY <1>3, DummyAssumption DEF DummyRecv
  <2> QED
    BY <2>1, DummyAssumption
<1>4. CASE Receive
  BY <1>3, <1>4 DEF Receive, Next
<1>5. CASE LoopTurn
  BY <1>3, <1>5 DEF LoopTurn, Next
<1>6. CASE UNCHANGED dummyVars
  BY <1>6 DEF dummyVars
<1> QED
  BY <1>1, <1>2, <1>4, <1>5, <1>6 DEF DummyNext

Counts == count \in Nat

(* The counter is a number: no close or failure resets it.                  *)
LEMMA CountHolds == DummySpec => []Counts
<1>1. Counts /\ [DummyNext]_dummyVars => Counts'
  <2> SUFFICES ASSUME count \in Nat, [DummyNext]_dummyVars PROVE count' \in Nat
    BY DEF Counts
  <2>1. CASE (Application \/ Dispatch) /\ UNCHANGED count
    BY <2>1
  <2>2. CASE Receive \/ LoopTurn
    BY <2>2 DEF Receive, LoopTurn, DummyRecv, DummyFailed
  <2>3. CASE UNCHANGED dummyVars
    BY <2>3 DEF dummyVars
  <2> QED
    BY <2>1, <2>2, <2>3 DEF DummyNext
<1>2. DummyInit => Counts
  BY DEF DummyInit, Counts
<1> QED
  BY <1>1, <1>2, PTL DEF DummySpec

(* So everything that is proved of Pcapcie holds in the process.            *)
THEOREM DummyIsLibrary == DummySpec => Spec
<1>1. DummyInit => Init
  BY DEF DummyInit
<1>2. Counts /\ [DummyNext]_dummyVars => [Next]_vars
  BY DummyStepIsStep DEF Counts
<1> QED
  BY <1>1, <1>2, CountHolds, PTL DEF DummySpec, Spec

-----------------------------------------------------------------------------
(* The packets a loop was shown are, one by one, those the counter had      *)
(* numbered: at[k] is the number of the k-th.                               *)
Numbers(at) ==
    /\ \A k \in 1..Len(seen) : at[k] \in 0..(count - 1) /\ seen[k] = Generated(at[k])
    /\ \A k \in 1..Len(seen), l \in 1..Len(seen) : k < l => at[k] < at[l]

Numbered == count \in Nat /\ seen \in Seq(Tlp) /\ \E at : Numbers(at)

(* Every step keeps the packets numbered: the loop's receive is the one     *)
(* that adds one.                                                           *)
LEMMA NumberedNext == Numbered /\ [DummyNext]_dummyVars => Numbered'
<1> SUFFICES ASSUME Numbered, [DummyNext]_dummyVars PROVE Numbered' OBVIOUS
<1>1. PICK at : Numbers(at)
  BY DEF Numbered
<1>t. count \in Nat /\ seen \in Seq(Tlp)
  BY DEF Numbered
<1>2. ASSUME seen' = seen, count' \in Nat, count' >= count PROVE Numbered'
  <2>1. Numbers(at)'
    BY <1>1, <1>2, <1>t DEF Numbers
  <2> QED
    BY <1>2, <1>t, <2>1 DEF Numbered
<1>3. ASSUME seen' = << >>, count' = count PROVE Numbered'
  <2>1. Numbers(at)'
    BY <1>3 DEF Numbers
  <2> QED
    BY <1>3, <1>t, <2>1 DEF Numbered
<1>4. ASSUME DummyRecv, LoopRecv(Generated(count)) PROVE Numbered'
  <2> DEFINE n == Len(seen)
  <2>1. Generated(count) \in Tlp /\ count' = count + 1
    BY <1>4, <1>t, DummyAssumption DEF DummyRecv
  <2>2. seen' = Append(seen, Generated(count))
    BY <1>4 DEF LoopRecv
  <2>3. /\ n \in Nat /\ seen' \in Seq(Tlp) /\ Len(seen') = n + 1
        /\ seen'[n + 1] = Generated(count)
        /\ \A k \in 1..n : seen'[k] = seen[k]
    BY <1>t, <2>1, <2>2, AppendProperties
  <2>4. PICK on : on = [k \in 1..(n + 1) |-> IF k = n + 1 THEN count ELSE at[k]]
    OBVIOUS
  <2>5. on[n + 1] = count /\ \A k \in 1..n : on[k] = at[k]
    BY <2>3, <2>4
  <2>6. ASSUME NEW k \in 1..Len(seen')
        PROVE  on[k] \in 0..(count' - 1) /\ seen'[k] = Generated(on[k])
    BY <1>1, <1>t, <2>1, <2>3, <2>5 DEF Numbers
  <2>7. ASSUME NEW k \in 1..Len(seen'), NEW l \in 1..Len(seen'), k < l
        PROVE  on[k] < on[l]
    BY <1>1, <1>t, <2>1, <2>3, <2>5, <2>7 DEF Numbers
  <2>8. Numbers(on)'
    BY <2>6, <2>7 DEF Numbers
  <2> QED
    BY <1>t, <2>1, <2>3, <2>8 DEF Numbered
<1>5. CASE (Application \/ Dispatch) /\ UNCHANGED count
  <2>1. seen' = seen \/ seen' = << >>
    BY <1>5 DEF Application, Dispatch, pcie_open, pcie_close, FreshContext, pcie_send,
       pcie_sniff, pcie_trace_append, pcie_trace_reset, LoopEnter, Scan,
       CallbackReturn, loopVars
  <2> QED
    BY <1>2, <1>3, <1>5, <1>t, <2>1
<1>6. CASE Receive
  BY <1>2, <1>6, <1>t DEF Receive, DummyRecv, pcie_recv, loopVars
<1>7. CASE LoopTurn
  BY <1>2, <1>4, <1>7, <1>t DEF LoopTurn, DummyFailed, LoopStop
<1>8. CASE UNCHANGED dummyVars
  BY <1>2, <1>8, <1>t DEF dummyVars, vars, loopVars
<1> QED
  BY <1>5, <1>6, <1>7, <1>8 DEF DummyNext

(* However many contexts the process has opened before and whatever it      *)
(* receives besides, a loop is shown no TLP twice, and none out of turn.    *)
THEOREM LoopShownOnce == DummySpec => []ShownOnce
<1>1. DummyInit => Numbered
  BY DEF DummyInit, Init, Numbered, Numbers
<1>2. Numbered => ShownOnce
  BY DEF Numbered, Numbers, ShownOnce
<1> QED
  BY <1>1, <1>2, NumberedNext, PTL DEF DummySpec

(* The log that the trace buffer implements, and the callbacks of a loop,   *)
(* are in the process what they are in the library.                         *)
THEOREM DummyKeepsLibrary == DummySpec => ImplementsLog /\ [](CallsExact /\ CallsOrdered)
BY DummyIsLibrary, TraceBufferImplementsLog, LoopCallsExact, LoopCallsOrdered, PTL
=============================================================================
