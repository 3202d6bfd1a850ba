---------------------------- MODULE DummySession ----------------------------
(***************************************************************************)
(* A process that uses libpcapcie with its dummy backend: the contexts it  *)
(* opens one after the other (Pcapcie), and dummy_recv's static counter    *)
(* (src/src/backend_dummy.c), which outlives them.  How long a call takes  *)
(* is the matter of DummyBackend.                                          *)
(***************************************************************************)
EXTENDS Pcapcie

CONSTANT Limit      \* TLPs that dummy_recv delivers in a process (1000)

VARIABLE count      \* TLPs dummy_recv has delivered

dummyVars == <<vars, count>>

(* What dummy_recv makes of the value of its counter.                       *)
Generated(n) ==
    [type |-> MEM_READ, length |-> 4, addr |-> 4096 + 4 * n, data |-> NoData]

ASSUME DummyAssumption ==
    /\ Limit \in Nat
    /\ \A n \in 0..(Limit - 1) : Generated(n) \in Tlp

DummyInit == Init /\ count = 0

(* Mutant: the counter stands still.                                        *)
DummyRecvMutant == count < Limit /\ UNCHANGED count

(* dummy_recv delivers Generated(count), or fails.                          *)
DummyRecv   == count < Limit /\ count' = count + 1
DummyFailed == count >= Limit /\ UNCHANGED count

(* The actions of Pcapcie with what the backend does in them.  dummy_send   *)
(* always succeeds; dummy_close leaves the counter as it is.                *)
Receive  == DummyRecv /\ pcie_recv(Generated(count))
LoopTurn == \/ DummyRecv /\ LoopRecv(Generated(count))
            \/ DummyFailed /\ LoopStop

Application ==
    \/ pcie_open
    \/ pcie_close
    \/ \E t \in Tlp : pcie_send(t, 0)
    \/ \E f \in Filters : pcie_sniff(f)
    \/ \E d \in Direction, t \in Tlp : pcie_trace_append(d, t)
    \/ pcie_trace_reset
    \/ LoopEnter

Dispatch == Scan \/ CallbackReturn

DummyNext == \/ (Application \/ Dispatch) /\ UNCHANGED count
             \/ Receive
             \/ LoopTurn

(* The library runs when it has the control, and a callback gives it back.  *)
DummySpec == /\ DummyInit /\ [][DummyNext]_dummyVars
             /\ WF_dummyVars(LoopTurn)
             /\ WF_dummyVars(Scan /\ UNCHANGED count)
             /\ WF_dummyVars(CallbackReturn /\ UNCHANGED count)

-----------------------------------------------------------------------------
(* Properties                                                               *)

(* A receive loop over the dummy backend ends, whatever its callbacks do on *)
(* the context and however often the process has received before.           *)
LoopReturns == (loop # "out") ~> (loop = "out")

(* A loop is shown the generated TLPs in their order and none of them twice,*)
(* although pcie_recv, in callbacks too, takes TLPs from the same counter,  *)
(* and contexts before have done so.                                        *)
ShownOnce ==
    \A k \in 1..Len(seen), l \in 1..Len(seen) :
        k < l => \E m, n \in 0..(count - 1) :
                    m < n /\ seen[k] = Generated(m) /\ seen[l] = Generated(n)
=============================================================================
